---------------------------- MODULE Spec2Model ----------------------------
(***************************************************************************)
(* Device-pairing state machine of openclaw-docker: the approval engine    *)
(* (scripts/lib/device-pairing.ts), the self-approval daemon               *)
(* (scripts/bootstrap/auto-approve-self-pairing.ts), the manual approval   *)
(* tool (scripts/approve-device-pairing-local.ts) and the atomic store     *)
(* write they share.                                                       *)
(*                                                                         *)
(* Three specifications over one set of variables:                         *)
(*   SpecApprove  approvePairing called on in-memory collections (a heap   *)
(*                of JavaScript objects, so that mutation and aliasing of  *)
(*                the inputs are observable);                              *)
(*   SpecStore    writeJsonAtomic running against concurrent readers and   *)
(*                writers of one destination path;                         *)
(*   Spec         the daemon and the manual tool as two processes over the *)
(*                shared files pending.json and paired.json.               *)
(***************************************************************************)
EXTENDS Integers, Sequences, FiniteSets, TLC

(***************************************************************************)
(* JavaScript values.  A string is the sequence of its character codes, so *)
(* that trim() and the SAFE_ID_RE test are computed, not assumed.          *)
(* `undefined` (equally: a property absent from the JSON document) is a    *)
(* sentinel of the same shape as the values of its field.                  *)
(***************************************************************************)
Ch == [sp |-> 32, tab |-> 9, dot |-> 46, slash |-> 47, dash |-> 45,
       colon |-> 58, us |-> 95, zero |-> 48, A |-> 65, a |-> 97, b |-> 98,
       e |-> 101, o |-> 111, p |-> 112, nl |-> 10, cr |-> 13]

UndefinedStr == << 0 - 1 >>

UndefinedArr == << UndefinedStr >>

NoTime == -1

IsString(v) == v # UndefinedStr

IsArray(v) == v # UndefinedArr

EmptyMap == [k \in {} |-> k]

\* String.prototype.trim strips white space and line terminators at both ends.
WhiteSpace == {9, 10, 11, 12, 13, 32, 160}

RECURSIVE TrimStart(_)
TrimStart(s) ==
    IF s # <<>> /\ Head(s) \in WhiteSpace THEN TrimStart(Tail(s)) ELSE s

RECURSIVE TrimEnd(_)
TrimEnd(s) ==
    IF s # <<>> /\ s[Len(s)] \in WhiteSpace
    THEN TrimEnd(SubSeq(s, 1, Len(s) - 1))
    ELSE s

Trim(s) == TrimEnd(TrimStart(s))

\* String(v ?? "").trim() for a string or undefined v.
StringTrim(v) == IF IsString(v) THEN Trim(v) ELSE <<>>

\* typeof v === "string" ? v.trim() : ""
TrimIfString(v) == IF IsString(v) THEN Trim(v) ELSE <<>>

\* [a-zA-Z0-9_\-:.]
SafeIdChars ==
    (97..122) \cup (65..90) \cup (48..57) \cup {95, 45, 58, 46}

\* A mutant: the safe set widened by the path separator.
SafeIdCharsWithSlash == SafeIdChars \cup {47}

\* SAFE_ID_RE = /^[a-zA-Z0-9_\-:.]+$/
isValidIdLax(value) ==
    /\ Len(value) > 0
    /\ \A i \in 1..Len(value) : value[i] \in SafeIdCharsWithSlash

isValidId(value) ==
    /\ Len(value) > 0
    /\ \A i \in 1..Len(value) : value[i] \in SafeIdChars

\* Array.prototype.sort() without a comparator: by UTF-16 code units.
RECURSIVE LexLess(_, _)
LexLess(x, y) ==
    IF x = <<>> THEN y # <<>>
    ELSE IF y = <<>> THEN FALSE
    ELSE IF Head(x) # Head(y) THEN Head(x) < Head(y)
    ELSE LexLess(Tail(x), Tail(y))

RECURSIVE SortedSeqOf(_)
SortedSeqOf(S) ==
    IF S = {} THEN <<>>
    ELSE LET m == CHOOSE x \in S : \A y \in S \ {x} : LexLess(x, y)
         IN  <<m>> \o SortedSeqOf(S \ {m})

Range(s) == {s[i] : i \in 1..Len(s)}

uniqSortedStrings(items) ==
    SortedSeqOf({Trim(v) : v \in {w \in Range(items) : IsString(w)}} \ {<<>>})

(***************************************************************************)
(* Records.  The descriptive fields of a request (publicKey, displayName,  *)
(* platform, clientId, clientMode, remoteIp) are all copied to the device  *)
(* the same way; publicKey and displayName stand for them.                 *)
(***************************************************************************)
PendingRequest(deviceId, displayName, role, roles, scopes, ts) ==
    [deviceId |-> deviceId, publicKey |-> UndefinedStr,
     displayName |-> displayName,
     role |-> role, roles |-> roles, scopes |-> scopes, ts |-> ts]

\* What a property read yields on a member of Object.prototype: every field
\* of a request is undefined on it.
ProtoMember ==
    [deviceId |-> UndefinedStr, publicKey |-> UndefinedStr,
     displayName |-> UndefinedStr, role |-> UndefinedStr,
     roles |-> UndefinedArr, scopes |-> UndefinedArr, ts |-> 0]

\* Names every object inherits from Object.prototype.
ObjectPrototypeKeys == {"constructor", "toString", "__proto__"}

(***************************************************************************)
(* The pending collection is a JavaScript object read from JSON: its own   *)
(* keys in insertion (document) order, and a value for each.               *)
(***************************************************************************)
EmptyPending == [keys |-> <<>>, at |-> EmptyMap]

HasOwn(obj, k) == k \in Range(obj.keys)

\* obj[k] is truthy: an own request, or a member of the prototype.
Truthy(obj, k) == HasOwn(obj, k) \/ k \in ObjectPrototypeKeys

\* obj[k], for a k with Truthy(obj, k).
Lookup(obj, k) == IF HasOwn(obj, k) THEN obj.at[k] ELSE ProtoMember

\* A mutant: the rest pattern dropping the first key instead of requestId.
OmitFirstKey(obj, k) ==
    LET ks == IF obj.keys = <<>> THEN <<>> ELSE Tail(obj.keys)
    IN  [keys |-> ks, at |-> [x \in Range(ks) |-> obj.at[x]]]

\* const { [requestId]: _removed, ...updatedPendingById } = pendingById
OmitKey(obj, k) ==
    LET keep(x) == x # k
        ks == SelectSeq(obj.keys, keep)
    IN  [keys |-> ks, at |-> [x \in Range(ks) |-> obj.at[x]]]

\* A mutant: the other keys are dropped.
PutOnlyKey(map, k, v) == [x \in {k} |-> v]

\* { ...obj, [k]: v } on a plain mapping.
PutKey(map, k, v) ==
    [x \in DOMAIN map \cup {k} |-> IF x = k THEN v ELSE map[x]]

(***************************************************************************)
(* The paired collection is a mapping from device id to PairedDevice.  No  *)
(* code enumerates its keys, so their order is not kept.  The device ids   *)
(* of the model never spell a member of Object.prototype.                  *)
(***************************************************************************)
\* A device read from disk may lack its tokens property.
NoTokens == [k \in {UndefinedStr} |-> UndefinedStr]

\* pairedByDeviceId[deviceId]: no element when undefined.
Existing(pairedByDeviceId, deviceId) ==
    IF deviceId \in DOMAIN pairedByDeviceId
    THEN <<pairedByDeviceId[deviceId]>>
    ELSE <<>>

\* A mutant: the roles of the request alone.
mergeRolesOfRequest(existing, pending) ==
    LET merged ==
            (IF IsArray(pending.roles) THEN pending.roles ELSE <<>>)
         \o (IF IsString(pending.role) /\ pending.role # <<>>
             THEN <<pending.role>> ELSE <<>>)
        out == uniqSortedStrings(merged)
    IN  IF Len(out) > 0 THEN out ELSE UndefinedArr

mergeRoles(existing, pending) ==
    LET merged ==
            (IF existing # <<>> /\ IsArray(existing[1].roles)
             THEN existing[1].roles ELSE <<>>)
         \o (IF existing # <<>> /\ IsString(existing[1].role)
                 /\ existing[1].role # <<>>
             THEN <<existing[1].role>> ELSE <<>>)
         \o (IF IsArray(pending.roles) THEN pending.roles ELSE <<>>)
         \o (IF IsString(pending.role) /\ pending.role # <<>>
             THEN <<pending.role>> ELSE <<>>)
        out == uniqSortedStrings(merged)
    IN  IF Len(out) > 0 THEN out ELSE UndefinedArr

\* A mutant: the scopes of the request alone.
mergeScopesOfRequest(existing, pending) ==
    uniqSortedStrings(IF IsArray(pending.scopes) THEN pending.scopes ELSE <<>>)

mergeScopes(existing, pending) ==
    LET merged ==
            (IF existing # <<>> /\ IsArray(existing[1].scopes)
             THEN existing[1].scopes ELSE <<>>)
         \o (IF IsArray(pending.scopes) THEN pending.scopes ELSE <<>>)
    IN  uniqSortedStrings(merged)

\* existing?.tokens && typeof existing.tokens === "object"
\*     ? { ...existing.tokens } : {}
ExistingTokens(existing) ==
    IF existing # <<>> /\ existing[1].tokens # NoTokens
    THEN existing[1].tokens
    ELSE EmptyMap

\* A mutant: no token is issued.
TokensUnrotated(existing, pending, roleForToken, now, tok) ==
    ExistingTokens(existing)

\* A mutant: the role's token is made anew, whatever token there was.
TokensFresh(existing, pending, roleForToken, now, tok) ==
    LET existingTokens == ExistingTokens(existing)
    IN  IF roleForToken # <<>>
        THEN PutKey(existingTokens, roleForToken,
                 [token |-> tok,
                  role |-> roleForToken,
                  scopes |-> uniqSortedStrings(
                      IF IsArray(pending.scopes) THEN pending.scopes ELSE <<>>),
                  createdAtMs |-> now,
                  rotatedAtMs |-> NoTime,
                  revokedAtMs |-> NoTime,
                  lastUsedAtMs |-> NoTime])
        ELSE existingTokens

\* A mutant: a request without a role leaves the device without tokens.
TokensOfRoleOnly(existing, pending, roleForToken, now, tok) ==
    IF roleForToken # <<>>
    THEN TokensFresh(existing, pending, roleForToken, now, tok)
    ELSE EmptyMap

\* A mutant: the token carries the role as the request has it, untrimmed.
TokensOfRawRole(existing, pending, roleForToken, now, tok) ==
    IF roleForToken # <<>>
    THEN [TokensFresh(existing, pending, roleForToken, now, tok)
             EXCEPT ![roleForToken].role = pending.role]
    ELSE ExistingTokens(existing)

\* The token map of the approved device: the role's token rotated when the
\* request carries a role, the existing entries otherwise.
Tokens(existing, pending, roleForToken, now, tok) ==
    LET existingTokens == ExistingTokens(existing)
        had == roleForToken \in DOMAIN existingTokens
    IN  IF roleForToken # <<>>
        THEN PutKey(existingTokens, roleForToken,
                 [token |-> tok,
                  role |-> roleForToken,
                  scopes |-> uniqSortedStrings(
                      IF IsArray(pending.scopes) THEN pending.scopes ELSE <<>>),
                  createdAtMs |->
                      IF had /\ existingTokens[roleForToken].createdAtMs # NoTime
                      THEN existingTokens[roleForToken].createdAtMs ELSE now,
                  rotatedAtMs |-> IF had THEN now ELSE NoTime,
                  revokedAtMs |-> NoTime,
                  lastUsedAtMs |->
                      IF had THEN existingTokens[roleForToken].lastUsedAtMs
                      ELSE NoTime])
        ELSE existingTokens

\* A mutant: the device is built from the request alone.
DeviceOfRequest(existing, pending, deviceId, roleForToken, now, tok) ==
    [deviceId |-> deviceId,
     publicKey |-> pending.publicKey,
     displayName |-> pending.displayName,
     role |-> pending.role,
     roles |-> mergeRoles(<<>>, pending),
     scopes |-> mergeScopes(<<>>, pending),
     tokens |-> Tokens(<<>>, pending, roleForToken, now, tok),
     createdAtMs |-> IF existing # <<>> THEN existing[1].createdAtMs ELSE now,
     approvedAtMs |-> now]

\* A mutant: every approval makes the device anew.
DeviceCreatedNow(existing, pending, deviceId, roleForToken, now, tok) ==
    [deviceId |-> deviceId,
     publicKey |-> pending.publicKey,
     displayName |-> pending.displayName,
     role |-> pending.role,
     roles |-> mergeRoles(existing, pending),
     scopes |-> mergeScopes(existing, pending),
     tokens |-> Tokens(existing, pending, roleForToken, now, tok),
     createdAtMs |-> now,
     approvedAtMs |-> now]

\* A mutant: the deviceId field is the device id as the request has it.
DeviceOfRawId(existing, pending, deviceId, roleForToken, now, tok) ==
    [DeviceCreatedNow(existing, pending, deviceId, roleForToken, now, tok)
        EXCEPT !.deviceId = pending.deviceId]

\* const device: PairedDevice = { deviceId, ..., approvedAtMs: now }
Device(existing, pending, deviceId, roleForToken, now, tok) ==
    [deviceId |-> deviceId,
     publicKey |-> pending.publicKey,
     displayName |-> pending.displayName,
     role |-> pending.role,
     roles |-> mergeRoles(existing, pending),
     scopes |-> mergeScopes(existing, pending),
     tokens |-> Tokens(existing, pending, roleForToken, now, tok),
     createdAtMs |->
         IF existing # <<>> /\ existing[1].createdAtMs # NoTime
         THEN existing[1].createdAtMs ELSE now,
     approvedAtMs |-> now]

(***************************************************************************)
(* approvePairing.  `now` is what Date.now() returns to the call and `tok` *)
(* what newToken() returns.  A thrown Error is a result with its message.  *)
(***************************************************************************)
Throw(message) == [status |-> "throw", error |-> message]

approvePairing(pendingById, pairedByDeviceId, requestId, now, tok) ==
    IF ~Truthy(pendingById, requestId)
    THEN Throw("requestId not found in pending")
    ELSE
    LET pending == Lookup(pendingById, requestId)
        deviceId == StringTrim(pending.deviceId)
        existing == Existing(pairedByDeviceId, deviceId)
        roleForToken == TrimIfString(pending.role)
    IN  IF deviceId = <<>>
        THEN Throw("pending request missing deviceId")
        ELSE IF ~isValidId(deviceId)
        THEN Throw("invalid deviceId format")
        ELSE IF roleForToken # <<>> /\ ~isValidId(roleForToken)
        THEN Throw("invalid role format")
        ELSE [status |-> "ok",
              deviceId |-> deviceId,
              updatedPendingById |-> OmitKey(pendingById, requestId),
              updatedPairedByDeviceId |->
                  PutKey(pairedByDeviceId, deviceId,
                         Device(existing, pending, deviceId, roleForToken,
                                now, tok))]

\* The error kinds of the approval engine.
IsNotFound(res) ==
    res.status = "throw" /\ res.error = "requestId not found in pending"

IsInvalidRequest(res) ==
    /\ res.status = "throw"
    /\ res.error \in {"pending request missing deviceId",
                      "invalid deviceId format", "invalid role format"}

(***************************************************************************)
(* State.                                                                  *)
(*   heap, pendingRef, pairedRef, last: the objects of one JavaScript      *)
(*   process calling approvePairing (SpecApprove);                         *)
(*   clock: Date.now(); tokenCounter: the tokens newToken() has issued;    *)
(*   impl: the revision of the scripts that runs ("lib": the scripts on   *)
(*   scripts/lib/device-pairing.ts; "inline": the scripts that carry the   *)
(*   approval inline);                                                     *)
(*   identityFile, pendingFile, pairedFile: the deviceId of                *)
(*   identity/device.json and the contents of pending.json and paired.json;*)
(*   proc: the local state of the daemon and of the manual tool;           *)
(*   restarts: process starts after the first of each;                     *)
(*   consumed, stalePending: history of the writes of pending.json.        *)
(***************************************************************************)
VARIABLES heap, pendingRef, pairedRef, last, clock, tokenCounter,
          impl, identityFile, pendingFile, pairedFile, proc, restarts,
          consumed, stalePending, fileState,
          dir, inodes, writer, reader, uuids, shell,
          sourceFile, authStoreFile, syncd, cycles

approveVars == <<heap, pendingRef, pairedRef, last>>

systemVars == <<impl, identityFile, pendingFile, pairedFile, proc, restarts,
                consumed, stalePending, fileState>>

vars == <<heap, pendingRef, pairedRef, last, clock, tokenCounter,
          impl, identityFile, pendingFile, pairedFile, proc, restarts,
          consumed, stalePending, fileState,
          dir, inodes, writer, reader, uuids, shell,
          sourceFile, authStoreFile, syncd, cycles>>

storeVars == <<dir, inodes, writer, reader, uuids, shell>>

syncVars == <<sourceFile, authStoreFile, syncd, cycles>>

(***************************************************************************)
(* Bounds.                                                                 *)
(***************************************************************************)
\* Entries of the pending collection a run starts with.
MaxPending == 2

\* Last value of the clock.
MaxClock == 2

(***************************************************************************)
(* Inputs.                                                                 *)
(***************************************************************************)
\* The requests a run draws its pending collection from, each under its
\* request id: valid device ids (one of them padded with white space, one
\* in upper case with a colon and a digit), a missing, a blank and two
\* unsafe device ids, and roles that are absent, blank, padded or unsafe;
\* one request has no ts.
RequestCatalogue ==
    LET S(x) == <<x>>
        scopesA == <<S(Ch.a)>>
        scopesB == <<S(Ch.b), S(Ch.a)>>
        scopesC == <<S(Ch.b), <<Ch.sp, Ch.a>>, <<Ch.sp>>>>
    IN
    [r1 |-> PendingRequest(<<Ch.a>>, <<Ch.e>>, <<Ch.o>>,
                           UndefinedArr, scopesA, 1),
     r2 |-> PendingRequest(<<Ch.A, Ch.colon, Ch.zero>>, UndefinedStr,
                           <<Ch.p, Ch.us, Ch.dash>>, <<S(Ch.p)>>, scopesB, 2),
     r3 |-> PendingRequest(<<Ch.sp, Ch.a, Ch.tab>>, <<Ch.b>>, <<Ch.sp, Ch.o>>,
                           <<S(Ch.o), S(Ch.a)>>, scopesC, 3),
     r4 |-> PendingRequest(<<Ch.a>>, <<Ch.e>>, UndefinedStr,
                           UndefinedArr, UndefinedArr, NoTime),
     r5 |-> PendingRequest(UndefinedStr, <<Ch.e>>, <<Ch.o>>,
                           UndefinedArr, scopesA, 5),
     r6 |-> PendingRequest(<<Ch.sp>>, <<Ch.e>>, <<Ch.o>>,
                           UndefinedArr, scopesA, 6),
     r7 |-> PendingRequest(<<Ch.a, Ch.sp, Ch.b>>, <<Ch.e>>, <<Ch.o>>,
                           UndefinedArr, scopesA, 7),
     r8 |-> PendingRequest(<<Ch.dot, Ch.dot, Ch.slash, Ch.e>>, <<Ch.e>>,
                           <<Ch.o>>, UndefinedArr, scopesA, 8),
     r9 |-> PendingRequest(<<Ch.b>>, <<Ch.e>>, <<Ch.o, Ch.slash>>,
                           UndefinedArr, scopesA, 9),
     r10 |-> PendingRequest(<<Ch.b>>, <<Ch.e>>, <<Ch.sp>>,
                            UndefinedArr, scopesA, 9)]

RequestIds == DOMAIN RequestCatalogue

\* The sequences of n different request ids among ids.
RECURSIVE KeySeqs(_, _)
KeySeqs(ids, n) ==
    IF n = 0 THEN {<<>>}
    ELSE {Append(ks, k) : ks \in KeySeqs(ids, n - 1), k \in ids} \cap
         {ks \in Seq(ids) : \A i, j \in 1..Len(ks) : i # j => ks[i] # ks[j]}

\* The pending collections with n entries keyed in ids, in every document
\* order.
PendingInputs(ids, n) ==
    {[keys |-> ks, at |-> [k \in Range(ks) |-> RequestCatalogue[k]]] :
        ks \in KeySeqs(ids, n)}

\* Request ids a caller may pass beside the keys of the collection: one
\* that is in no collection, and a name every object inherits.
ForeignRequestIds == {"r-absent", "constructor"}

(***************************************************************************)
(* The heap of the calling process.  A cell holds one JavaScript object:   *)
(* a collection, a device record or a token map; an object-valued property *)
(* holds the reference (index) of its cell, 0 for undefined.               *)
(***************************************************************************)
Cell(kind, val) == [kind |-> kind, val |-> val]

DerefDevice(h, r) ==
    [h[r].val EXCEPT !.tokens = IF @ = 0 THEN NoTokens ELSE h[@].val]

DerefPaired(h, r) ==
    [d \in DOMAIN h[r].val |-> DerefDevice(h, h[r].val[d])]

\* A mutant: the approval written into the caller's own objects, as
\* `delete pendingById[requestId]; pairedByDeviceId[deviceId] = device` does.
ApproveInPlace(h, pRef, dRef, requestId, now, tok) ==
    LET res == approvePairing(h[pRef].val, DerefPaired(h, dRef), requestId,
                              now, tok)
        n == Len(h)
    IN  IF res.status # "ok"
        THEN [heap |-> h, res |-> res, refs |-> <<>>]
        ELSE LET device == res.updatedPairedByDeviceId[res.deviceId]
             IN  [heap |->
                      [h EXCEPT
                          ![pRef] = Cell("pending", res.updatedPendingById),
                          ![dRef] = Cell("paired",
                              PutKey(h[dRef].val, res.deviceId, n + 2))]
                      \o <<Cell("tokens", device.tokens),
                           Cell("device", [device EXCEPT !.tokens = n + 1])>>,
                  res |-> res,
                  refs |-> <<pRef, dRef>>]

\* approvePairing on the heap: the result's objects are allocated in new
\* cells; the entries the spreads copy keep pointing at the cells they
\* pointed at.  No statement of the function assigns to an existing object.
ApproveOnHeap(h, pRef, dRef, requestId, now, tok) ==
    LET res == approvePairing(h[pRef].val, DerefPaired(h, dRef), requestId,
                              now, tok)
        n == Len(h)
    IN  IF res.status # "ok"
        THEN [heap |-> h, res |-> res, refs |-> <<>>]
        ELSE LET device == res.updatedPairedByDeviceId[res.deviceId]
             IN  [heap |-> h \o
                      <<Cell("tokens", device.tokens),
                        Cell("device", [device EXCEPT !.tokens = n + 1]),
                        Cell("pending", res.updatedPendingById),
                        Cell("paired",
                             PutKey(h[dRef].val, res.deviceId, n + 2))>>,
                  res |-> res,
                  refs |-> <<n + 3, n + 4>>]

NoCall == [called |-> FALSE]

\* A process that has not been started.
NotStarted ==
    [pc |-> "off", selfDeviceId |-> <<>>, endAt |-> 0, arg |-> "",
     pendingById |-> EmptyPending, pairedByDeviceId |-> EmptyMap,
     requestId |-> "", deviceId |-> <<>>,
     updatedPendingById |-> EmptyPending,
     updatedPairedByDeviceId |-> EmptyMap,
     wrote |-> "none", failed |-> FALSE, exitCode |-> 0, message |-> ""]

Procs == {"daemon", "tool"}

\* The processes that call writeJsonAtomic on one path at the same time.
Writers == {"w1", "w2"}

\* A writer before its call: the revision of writeJsonAtomic it runs, the
\* uuid of its temp name, its descriptor (an inode, 0 for none) and how
\* much of its text it has written.
WriterIdle ==
    [pc |-> "off", revision |-> "lib", uuid |-> 0, fd |-> 0, written |-> 0]

\* The reader before readFileSync: its descriptor, and what it has read.
ReaderIdle == [pc |-> "off", fd |-> 0, seen |-> <<>>, reads |-> 0]

\* The shell of the entrypoint before it runs.
ShellOff == [pc |-> "off"]

\* The directory and its users while no file operation is followed step by
\* step.
StoreIdle ==
    /\ dir = [n \in {} |-> 0]
    /\ inodes = <<>>
    /\ writer = [w \in Writers |-> WriterIdle]
    /\ reader = ReaderIdle
    /\ uuids = 0
    /\ shell = ShellOff

\* The credential files and their daemon while they are left alone.
SyncIdle ==
    /\ sourceFile = [content |-> "none", mtime |-> 0]
    /\ authStoreFile = [exists |-> FALSE]
    /\ syncd = [pc |-> "off"]
    /\ cycles = <<>>

\* The files and processes while only approvePairing is exercised.
\* What is at the path of a store file: a JSON object ("ok", the collection
\* is in pendingFile or pairedFile), no file, text that is no JSON, or
\* JSON that is no object: null, or an array.
FileStates == {"ok", "missing", "corrupt", "null", "array"}

FilesOk == [pending |-> "ok", paired |-> "ok"]

\* readJsonFile(filePath, fallback): JSON.parse(fs.readFileSync(...)), the
\* fallback when either throws.  An array without elements has no keys and
\* no members: every use the scripts make of it is that of {}.
readJsonFile(state, content, fallback) ==
    CASE state \in {"missing", "corrupt"} -> [isNull |-> FALSE, value |-> fallback]
      [] state = "null" -> [isNull |-> TRUE, value |-> fallback]
      [] state = "array" -> [isNull |-> FALSE, value |-> fallback]
      [] OTHER -> [isNull |-> FALSE, value |-> content]

\* A member of null is read, or Object.keys(null) is called.
TypeError == "TypeError: Cannot read properties of null"

SystemIdle ==
    /\ fileState = FilesOk
    /\ impl = "lib"
    /\ identityFile = UndefinedStr
    /\ pendingFile = EmptyPending
    /\ pairedFile = EmptyMap
    /\ proc = [p \in Procs |-> NotStarted]
    /\ restarts = 0
    /\ consumed = [k \in {} |-> 0]
    /\ stalePending = FALSE

\* A device paired earlier (by the gateway): its times lie before the run.
LegacyDevice ==
    [deviceId |-> <<Ch.b>>,
     publicKey |-> <<Ch.p>>,
     displayName |-> <<Ch.b>>,
     role |-> <<Ch.e>>,
     roles |-> UndefinedArr,
     scopes |-> <<<<Ch.e>>>>,
     tokens |-> [r \in {<<Ch.e>>} |->
                    [token |-> 0, role |-> <<Ch.e>>, scopes |-> <<<<Ch.e>>>>,
                     createdAtMs |-> 0, rotatedAtMs |-> NoTime,
                     revokedAtMs |-> 0, lastUsedAtMs |-> 0]],
     createdAtMs |-> 0,
     approvedAtMs |-> 0]

\* The paired collections a run starts with.
PairedInputs == {EmptyMap, [d \in {LegacyDevice.deviceId} |-> LegacyDevice]}

\* The cells of a paired collection whose own cell is at index at: the
\* collection, then for each device its token map and its record.
HeapOfPaired(paired, at) ==
    IF paired = EmptyMap
    THEN <<Cell("paired", EmptyMap)>>
    ELSE <<Cell("paired", [d \in DOMAIN paired |-> at + 2]),
           Cell("tokens", LegacyDevice.tokens),
           Cell("device", [LegacyDevice EXCEPT !.tokens = at + 1])>>

InitApprove ==
    /\ \E n \in 0..MaxPending : \E p \in PendingInputs(RequestIds, n) :
       \E d \in PairedInputs :
           heap = <<Cell("pending", p)>> \o HeapOfPaired(d, 2)
    /\ pendingRef = 1
    /\ pairedRef = 2
    /\ last = NoCall
    /\ clock = 1
    /\ tokenCounter = 0
    /\ SystemIdle
    /\ StoreIdle
    /\ SyncIdle

\* One call approvePairing(pendingById, pairedByDeviceId, requestId); on
\* success the caller goes on with the returned collections.
Approve(requestId) ==
    \E now \in {clock, IF clock < MaxClock THEN clock + 1 ELSE clock} :
        LET out == ApproveOnHeap(heap, pendingRef, pairedRef, requestId, now,
                                 tokenCounter + 1)
        IN  /\ last' = [called |-> TRUE,
                        requestId |-> requestId,
                        heapBefore |-> heap,
                        pendingRef |-> pendingRef,
                        pairedRef |-> pairedRef,
                        res |-> out.res,
                        refs |-> out.refs]
            /\ heap' = out.heap
            /\ clock' = now
            /\ IF out.res.status = "ok"
               THEN /\ pendingRef' = out.refs[1]
                    /\ pairedRef' = out.refs[2]
                    /\ tokenCounter' = tokenCounter + 1
               ELSE UNCHANGED <<pendingRef, pairedRef, tokenCounter>>
            /\ UNCHANGED <<systemVars, storeVars, syncVars>>

NextApprove ==
    \E requestId \in Range(heap[pendingRef].val.keys) \cup ForeignRequestIds :
        Approve(requestId)

SpecApprove == InitApprove /\ [][NextApprove]_vars

(***************************************************************************)
(* The last call, as its caller saw it.                                    *)
(***************************************************************************)
Succeeded == last.called /\ last.res.status = "ok"

Failed == last.called /\ last.res.status = "throw"

InPending == last.heapBefore[last.pendingRef].val

InPaired == DerefPaired(last.heapBefore, last.pairedRef)

OutPending == heap[last.refs[1]].val

OutPaired == DerefPaired(heap, last.refs[2])

\* The request the call was about (for a key of the input collection).
InRequest == InPending.at[last.requestId]

HasUnsafeChar(s) == \E i \in 1..Len(s) : s[i] \notin SafeIdChars

\* s without its i-th element.
Without(s, i) == SubSeq(s, 1, i - 1) \o SubSeq(s, i + 1, Len(s))

\* Every object that existed before the call is what it was.
InputsUntouched ==
    \A r \in 1..Len(last.heapBefore) : heap[r] = last.heapBefore[r]

(***************************************************************************)
(* C2.  A successful approve returns the input pending collection minus    *)
(* exactly requestId (the other requests unchanged, in their order) and    *)
(* the input paired collection with exactly the request's device id mapped *)
(* to the new record (every other device unchanged).                       *)
(***************************************************************************)
C2_ApproveFrame ==
    Succeeded =>
        LET deviceId == last.res.deviceId IN
        /\ \E i \in 1..Len(InPending.keys) :
              /\ InPending.keys[i] = last.requestId
              /\ OutPending.keys = Without(InPending.keys, i)
        /\ DOMAIN OutPending.at = Range(OutPending.keys)
        /\ \A k \in Range(OutPending.keys) : OutPending.at[k] = InPending.at[k]
        /\ DOMAIN OutPaired = DOMAIN InPaired \cup {deviceId}
        /\ \A d \in DOMAIN InPaired \ {deviceId} : OutPaired[d] = InPaired[d]
        /\ deviceId = StringTrim(InRequest.deviceId)
        /\ OutPaired[deviceId].deviceId = deviceId
        /\ OutPaired[deviceId].displayName = InRequest.displayName
        /\ OutPaired[deviceId].approvedAtMs = clock
        /\ OutPending = last.res.updatedPendingById
        /\ OutPaired = last.res.updatedPairedByDeviceId

\* A success with another request left pending and another device paired.
C2_Witness ==
    /\ Succeeded
    /\ Len(OutPending.keys) >= 1
    /\ DOMAIN InPaired \ {last.res.deviceId} # {}

(***************************************************************************)
(* C3.  As claimed: approve fails with InvalidRequest for every request    *)
(* whose device id is empty or blank or contains a character outside the   *)
(* safe set (white space included), or whose role, when present, contains  *)
(* such a character; and then mutates nothing.                             *)
(***************************************************************************)
C3_Original ==
    (/\ last.called
     /\ HasOwn(InPending, last.requestId)
     /\ \/ StringTrim(InRequest.deviceId) = <<>>
        \/ HasUnsafeChar(InRequest.deviceId)
        \/ IsString(InRequest.role) /\ HasUnsafeChar(InRequest.role))
    => IsInvalidRequest(last.res) /\ InputsUntouched /\ heap = last.heapBefore

(***************************************************************************)
(* C3, amended.  White space around the device id and around the role is   *)
(* trimmed before the test: approve fails with InvalidRequest, mutating    *)
(* nothing, exactly for a request whose trimmed device id is empty or has  *)
(* a character outside the safe set, or whose role is a string whose       *)
(* trimmed value is non-empty and has such a character; the device id of   *)
(* an accepted request is its trimmed device id, character for character.  *)
(***************************************************************************)
C3_InvalidRequest ==
    (last.called /\ HasOwn(InPending, last.requestId)) =>
        LET deviceId == Trim(InRequest.deviceId)
            bad == \/ ~IsString(InRequest.deviceId)
                   \/ deviceId = <<>>
                   \/ HasUnsafeChar(deviceId)
                   \/ /\ IsString(InRequest.role)
                      /\ HasUnsafeChar(Trim(InRequest.role))
        IN  /\ bad => /\ IsInvalidRequest(last.res)
                      /\ InputsUntouched
                      /\ heap = last.heapBefore
                      /\ last.refs = <<>>
            /\ ~bad => /\ Succeeded
                       /\ last.res.deviceId = deviceId
                       /\ ~HasUnsafeChar(last.res.deviceId)

\* A device id with a path separator was refused.
C3_Witness ==
    /\ Failed
    /\ HasOwn(InPending, last.requestId)
    /\ \E i \in 1..Len(InRequest.deviceId) : InRequest.deviceId[i] = Ch.slash
    /\ IsInvalidRequest(last.res)

(***************************************************************************)
(* C4.  approve fails with NotFound whenever requestId is not a key of the *)
(* pending collection, and then produces no collections and leaves both    *)
(* inputs unchanged.                                                       *)
(***************************************************************************)
C4_NotFound ==
    (last.called /\ ~HasOwn(InPending, last.requestId)) =>
        /\ IsNotFound(last.res)
        /\ last.refs = <<>>
        /\ InputsUntouched

(***************************************************************************)
(* C5.  approve is pure: after any call every object that existed before   *)
(* it (the input collections, each paired device record and each token     *)
(* map) is what it was, and the collections, the device record and the     *)
(* token map it returns are objects that did not exist before.             *)
(***************************************************************************)
C5_Pure ==
    last.called =>
        /\ InputsUntouched
        /\ Succeeded =>
              LET n == Len(last.heapBefore)
                  deviceRef == heap[last.refs[2]].val[last.res.deviceId]
              IN  /\ last.refs[1] > n
                  /\ last.refs[2] > n
                  /\ deviceRef > n
                  /\ heap[deviceRef].val.tokens > n
                  /\ InPending = heap[last.pendingRef].val
                  /\ InPaired = DerefPaired(heap, last.pairedRef)

\* A device that was already paired, with a token, was approved again.
C5_Witness ==
    /\ Succeeded
    /\ last.res.deviceId \in DOMAIN InPaired
    /\ InPaired[last.res.deviceId].tokens # EmptyMap
    /\ InPaired[last.res.deviceId].tokens # NoTokens

(***************************************************************************)
(* The daemon and the manual tool over the shared store.                   *)
(*                                                                         *)
(* A step is one file operation of a process together with the local       *)
(* computation that follows it.  writeJsonAtomic appears here by its       *)
(* rename, the one step of it that other processes can see (SpecStore      *)
(* below has its steps one by one).  The clock advances while the daemon   *)
(* sleeps; one unit is one poll interval (sleep(2000)).                    *)
(***************************************************************************)
\* Poll intervals until the deadline: PAIRING_TIMEOUT_MS / 2000 scaled down.
TimeoutTicks == 2

\* Starts of a process after its first one.
MaxRestarts == 1

\* The requests pending.json is filled from.
SystemRequestIds == {"r2", "r3", "r8"}

\* identity.deviceId of identity/device.json: absent (or the file missing
\* or unparsable), blank, padded, and unsafe.
IdentityInputs ==
    {UndefinedStr, <<Ch.sp>>, <<Ch.sp, Ch.a>>,
     <<Ch.dot, Ch.dot, Ch.slash, Ch.e>>}

\* process.argv[2]: none, the id of a request now pending (the operator
\* has listed them), or a name of no request.
ArgInputs == {""} \cup Range(pendingFile.keys) \cup ForeignRequestIds

\* process.argv[2] as text: not given, or a request id (of ArgInputs, ""
\* for none) with or without white space around it.
ArgvInputs ==
    {[given |-> FALSE, padded |-> FALSE, id |-> ""]}
        \cup [given : {TRUE}, padded : BOOLEAN, id : ArgInputs]

\* process.argv[2]?.trim(), "" for undefined (both are falsy in
\* `requestIdArg || ...`): the white space around the id is gone.
RequestIdArg(argv) == IF argv.given THEN argv.id ELSE ""

\* The approval the older scripts carry inline: no test of the identifier's
\* characters; the manual tool exits when the device id is blank.
approveInline(pendingById, pairedByDeviceId, requestId, now, tok) ==
    LET pending == Lookup(pendingById, requestId)
        deviceId == StringTrim(pending.deviceId)
        existing == Existing(pairedByDeviceId, deviceId)
        roleForToken == TrimIfString(pending.role)
    IN  IF deviceId = <<>>
        THEN [status |-> "fatal", error |-> "pending request missing deviceId"]
        ELSE [status |-> "ok",
              deviceId |-> deviceId,
              updatedPendingById |-> OmitKey(pendingById, requestId),
              updatedPairedByDeviceId |->
                  PutKey(pairedByDeviceId, deviceId,
                         Device(existing, pending, deviceId, roleForToken,
                                now, tok))]

\* The approval of the running revision.
ScriptApproval(pendingById, pairedByDeviceId, requestId, now, tok) ==
    IF impl = "lib"
    THEN approvePairing(pendingById, pairedByDeviceId, requestId, now, tok)
    ELSE approveInline(pendingById, pairedByDeviceId, requestId, now, tok)

\* A mutant: any request with a device id matches.
MatchesAnyDevice(pending, selfDeviceId) == StringTrim(pending.deviceId) # <<>>

\* A mutant: the device id of the request is compared as it stands.
MatchesSelfUntrimmed(pending, selfDeviceId) ==
    pending.deviceId = selfDeviceId

\* String(pendingById[id]?.deviceId ?? "").trim() === selfDeviceId
MatchesSelf(pending, selfDeviceId) ==
    StringTrim(pending.deviceId) = selfDeviceId

\* A mutant: the last match in key order.
FindLastSelfRequest(pendingById, selfDeviceId) ==
    LET hit(i) == MatchesSelf(pendingById.at[pendingById.keys[i]], selfDeviceId)
        hits == {i \in 1..Len(pendingById.keys) : hit(i)}
    IN  IF hits = {} THEN ""
        ELSE pendingById.keys[CHOOSE i \in hits : \A j \in hits : i >= j]

\* Object.keys(pendingById).find(...): the first match in key order, "" for
\* undefined.
FindSelfRequest(pendingById, selfDeviceId) ==
    LET hit(i) == MatchesSelf(pendingById.at[pendingById.keys[i]], selfDeviceId)
        hits == {i \in 1..Len(pendingById.keys) : hit(i)}
    IN  IF hits = {} THEN ""
        ELSE pendingById.keys[CHOOSE i \in hits : \A j \in hits : i <= j]

\* Number(pendingById[id]?.ts ?? 0)
TsNumber(pending) == IF pending.ts = NoTime THEN 0 ELSE pending.ts

\* A mutant: Object.keys(pendingById)[0], unsorted.
FirstRequest(pendingById) ==
    IF pendingById.keys = <<>> THEN "" ELSE pendingById.keys[1]

\* Object.keys(pendingById).sort((a, b) => ts[b] - ts[a])[0]: the greatest
\* ts, the first such key in key order (the sort is stable), "" for
\* undefined.
MostRecentRequest(pendingById) ==
    LET ks == pendingById.keys
        best == {i \in 1..Len(ks) :
                    \A j \in 1..Len(ks) :
                        TsNumber(pendingById.at[ks[i]]) >=
                            TsNumber(pendingById.at[ks[j]])}
    IN  IF ks = <<>> THEN ""
        ELSE ks[CHOOSE i \in best : \A j \in best : i <= j]

Running(p) == proc[p].pc \notin {"off", "exit", "crashed"}

\* The process ends with a status; its memory is gone.
Exit(p, code) ==
    [proc EXCEPT ![p] = [NotStarted EXCEPT !.pc = "exit", !.exitCode = code]]

\* A mutant: process.exit() without a status.
ExitSilently(p, code, message) == Exit(p, 0)

\* console.error(`[fatal] ...`); process.exit(code), or an uncaught Error
\* that node reports before it ends the process with that status.
ExitWith(p, code, message) ==
    [proc EXCEPT ![p] = [NotStarted EXCEPT !.pc = "exit", !.exitCode = code,
                                           !.message = message]]

fileVars == <<pendingFile, pairedFile, consumed, stalePending, fileState>>

\* No call of approvePairing is followed on the heap.
ApproveIdle ==
    /\ heap = <<>>
    /\ pendingRef = 0
    /\ pairedRef = 0
    /\ last = NoCall

Init ==
    /\ impl \in {"lib", "inline"}
    /\ identityFile \in IdentityInputs
    /\ \E n \in 0..MaxPending :
           pendingFile \in PendingInputs(SystemRequestIds, n)
    /\ pairedFile \in PairedInputs
    /\ proc = [p \in Procs |-> NotStarted]
    /\ restarts = 0
    /\ consumed = [k \in SystemRequestIds |-> 0]
    /\ stalePending = FALSE
    /\ fileState = FilesOk
    /\ clock = 1
    /\ tokenCounter = 0
    /\ ApproveIdle
    /\ StoreIdle
    /\ SyncIdle

\* A mutant: the daemon goes on without an identity.
DaemonStartAnyway ==
    /\ proc["daemon"].pc = "off"
    /\ proc' = [proc EXCEPT !["daemon"].pc = "poll",
                            !["daemon"].selfDeviceId = TrimIfString(identityFile),
                            !["daemon"].endAt = clock + TimeoutTicks]
    /\ UNCHANGED <<approveVars, storeVars, syncVars,
                   fileVars, clock, tokenCounter, impl,
                   identityFile, restarts>>

\* main(): the identity is read once; without one the daemon returns.
DaemonStart ==
    /\ proc["daemon"].pc = "off"
    /\ LET selfDeviceId == TrimIfString(identityFile) IN
       proc' = IF selfDeviceId = <<>>
               THEN Exit("daemon", 0)
               ELSE [proc EXCEPT !["daemon"].pc = "poll",
                                 !["daemon"].selfDeviceId = selfDeviceId,
                                 !["daemon"].endAt = clock + TimeoutTicks]
    /\ UNCHANGED <<approveVars, storeVars, syncVars,
                   fileVars, clock, tokenCounter, impl,
                   identityFile, restarts>>

\* A mutant: while (true), the deadline is not looked at.
DaemonPollForever ==
    /\ proc["daemon"].pc = "poll"
    /\ proc' =
         IF proc["daemon"].selfDeviceId \in DOMAIN pairedFile
         THEN Exit("daemon", 0)
         ELSE [proc EXCEPT !["daemon"].pc = "scan",
                           !["daemon"].pairedByDeviceId = pairedFile]
    /\ UNCHANGED <<approveVars, storeVars, syncVars,
                   fileVars, clock, tokenCounter, impl,
                   identityFile, restarts>>

\* A mutant: the daemon does not look for its device in paired.json.
DaemonPollUnpaired ==
    /\ proc["daemon"].pc = "poll"
    /\ proc' =
         IF ~(clock < proc["daemon"].endAt)
         THEN Exit("daemon", 0)
         ELSE [proc EXCEPT !["daemon"].pc = "scan",
                           !["daemon"].pairedByDeviceId = pairedFile]
    /\ UNCHANGED <<approveVars, storeVars, syncVars,
                   fileVars, clock, tokenCounter, impl,
                   identityFile, restarts>>

\* while (Date.now() < endAt): paired.json is read; the daemon returns when
\* its own device is paired.
DaemonPoll ==
    /\ proc["daemon"].pc = "poll"
    /\ proc' =
         LET paired == readJsonFile(fileState.paired, pairedFile, EmptyMap) IN
         IF ~(clock < proc["daemon"].endAt)
         THEN Exit("daemon", 0)
         ELSE IF paired.isNull
         THEN ExitWith("daemon", IF impl = "lib" THEN 1 ELSE 0, TypeError)
         ELSE IF proc["daemon"].selfDeviceId \in DOMAIN paired.value
         THEN Exit("daemon", 0)
         ELSE [proc EXCEPT !["daemon"].pc = "scan",
                           !["daemon"].pairedByDeviceId = paired.value]
    /\ UNCHANGED <<approveVars, storeVars, syncVars,
                   fileVars, clock, tokenCounter, impl,
                   identityFile, restarts>>

\* pending.json is read and searched for the daemon's own request; a match
\* is approved in memory.  An Error thrown by approvePairing ends main():
\* the catch handler sets process.exitCode = 1.
DaemonScan ==
    /\ proc["daemon"].pc = "scan"
    /\ LET d == proc["daemon"]
           pending == readJsonFile(fileState.pending, pendingFile,
                                   EmptyPending)
           pendingById == pending.value
           requestId == FindSelfRequest(pendingById, d.selfDeviceId)
           res == ScriptApproval(pendingById, d.pairedByDeviceId, requestId,
                                 clock, tokenCounter + 1)
       IN  IF pending.isNull
           THEN /\ proc' = ExitWith("daemon", IF impl = "lib" THEN 1 ELSE 0,
                                    TypeError)
                /\ UNCHANGED tokenCounter
           ELSE IF requestId = ""
              \/ ~MatchesSelf(Lookup(pendingById, requestId), d.selfDeviceId)
           THEN /\ proc' = [proc EXCEPT !["daemon"].pc = "sleep",
                                        !["daemon"].pendingById = pendingById]
                /\ UNCHANGED tokenCounter
           ELSE IF res.status # "ok"
           THEN /\ proc' = Exit("daemon", 1)
                /\ UNCHANGED tokenCounter
           ELSE /\ proc' = [proc EXCEPT
                      !["daemon"].pc = "writePending",
                      !["daemon"].pendingById = pendingById,
                      !["daemon"].requestId = requestId,
                      !["daemon"].deviceId = res.deviceId,
                      !["daemon"].updatedPendingById = res.updatedPendingById,
                      !["daemon"].updatedPairedByDeviceId =
                          res.updatedPairedByDeviceId]
                /\ tokenCounter' = tokenCounter + 1
    /\ UNCHANGED <<approveVars, storeVars, syncVars,
                   fileVars, clock, impl, identityFile, restarts>>

\* await sleep(2000); continue
DaemonSleep ==
    /\ proc["daemon"].pc = "sleep"
    /\ clock' = clock + 1
    /\ proc' = [proc EXCEPT !["daemon"].pc = "poll"]
    /\ UNCHANGED <<approveVars, storeVars, syncVars,
                   fileVars, tokenCounter, impl, identityFile,
                   restarts>>

\* The tool is started with or without a request id.
ToolStart ==
    /\ proc["tool"].pc = "off"
    /\ \E requestIdArg \in {RequestIdArg(argv) : argv \in ArgvInputs} :
           proc' = [proc EXCEPT !["tool"].pc = "readPending",
                                !["tool"].arg = requestIdArg]
    /\ UNCHANGED <<approveVars, storeVars, syncVars,
                   fileVars, clock, tokenCounter, impl,
                   identityFile, restarts>>

ToolReadPending ==
    /\ proc["tool"].pc = "readPending"
    /\ LET pending == readJsonFile(fileState.pending, pendingFile,
                                   EmptyPending)
       IN  proc' = IF pending.isNull
                   THEN ExitWith("tool", 1, TypeError)
                   ELSE [proc EXCEPT !["tool"].pc = "readPaired",
                                     !["tool"].pendingById = pending.value]
    /\ UNCHANGED <<approveVars, storeVars, syncVars,
                   fileVars, clock, tokenCounter, impl,
                   identityFile, restarts>>

\* paired.json is read, the request is chosen and approved in memory.  The
\* tool exits 1 when there is no request or the id is not found; an Error
\* thrown by approvePairing is uncaught and ends the process with status 1.
ToolReadPaired ==
    /\ proc["tool"].pc = "readPaired"
    /\ LET t == proc["tool"]
           requestId == IF t.arg # "" THEN t.arg
                        ELSE MostRecentRequest(t.pendingById)
           paired == readJsonFile(fileState.paired, pairedFile, EmptyMap)
           res == ScriptApproval(t.pendingById, paired.value, requestId,
                                 clock, tokenCounter + 1)
           read == [proc EXCEPT !["tool"].pairedByDeviceId = paired.value,
                                !["tool"].requestId = requestId]
       IN  IF requestId = ""
           THEN /\ proc' = ExitWith("tool", 1,
                                    "no pending pairing requests found")
                /\ UNCHANGED tokenCounter
           ELSE IF ~Truthy(t.pendingById, requestId)
           THEN /\ proc' = ExitWith("tool", 1,
                                    "requestId not found in pending.json")
                /\ UNCHANGED tokenCounter
           ELSE IF res.status # "ok"
                   /\ (~paired.isNull \/ res.error # "invalid role format")
           THEN /\ proc' = ExitWith("tool", 1, res.error)
                /\ UNCHANGED tokenCounter
           ELSE IF paired.isNull
           THEN /\ proc' = ExitWith("tool", 1, TypeError)
                /\ UNCHANGED tokenCounter
           ELSE /\ proc' = [read EXCEPT
                      !["tool"].pc = "writePending",
                      !["tool"].deviceId = res.deviceId,
                      !["tool"].updatedPendingById = res.updatedPendingById,
                      !["tool"].updatedPairedByDeviceId =
                          res.updatedPairedByDeviceId]
                /\ tokenCounter' = tokenCounter + 1
    /\ UNCHANGED <<approveVars, storeVars, syncVars,
                   fileVars, clock, impl, identityFile, restarts>>

\* A mutant: the collection as it was read.
KeptPending(p) == proc[p].pendingById

\* writeJsonAtomic(pendingPath, updatedPendingById): what is renamed over
\* pending.json.
WrittenPending(p) == proc[p].updatedPendingById

\* A mutant: the approved device put into the file's current content.
MergedPaired(p) ==
    PutKey(pairedFile, proc[p].deviceId,
           proc[p].updatedPairedByDeviceId[proc[p].deviceId])

\* writeJsonAtomic(pairedPath, updatedPairedByDeviceId)
WrittenPaired(p) == proc[p].updatedPairedByDeviceId

WritePending(p) ==
    /\ proc[p].pc = "writePending"
    /\ pendingFile' = WrittenPending(p)
    /\ consumed' = [consumed EXCEPT ![proc[p].requestId] = @ + 1]
    /\ stalePending' = (stalePending \/ proc[p].pendingById # pendingFile)
    /\ fileState' = [fileState EXCEPT !.pending = "ok"]
    /\ proc' = [proc EXCEPT ![p].pc = "writePaired", ![p].wrote = "pending"]
    /\ UNCHANGED <<approveVars, storeVars, syncVars,
                   pairedFile, clock, tokenCounter, impl,
                   identityFile, restarts>>

WritePaired(p) ==
    /\ proc[p].pc = "writePaired"
    /\ pairedFile' = WrittenPaired(p)
    /\ fileState' = [fileState EXCEPT !.paired = "ok"]
    /\ proc' = [proc EXCEPT ![p] = [NotStarted EXCEPT
                                       !.pc = "exit",
                                       !.requestId = proc[p].requestId,
                                       !.deviceId = proc[p].deviceId,
                                       !.wrote = "both"]]
    /\ UNCHANGED <<approveVars, storeVars, syncVars,
                   pendingFile, consumed, stalePending, clock,
                   tokenCounter, impl, identityFile, restarts>>

\* identity/device.json, which the scripts only read, is written by the
\* gateway: a node without an identity gets one.
IdentityAppears ==
    /\ TrimIfString(identityFile) = <<>>
    /\ identityFile' = <<Ch.sp, Ch.a>>
    /\ UNCHANGED <<approveVars, storeVars, syncVars,
                   fileVars, clock, tokenCounter, impl, proc, restarts>>

\* writeJsonAtomic throws (mkdirSync, writeFileSync or renameSync fails: disk
\* full, no permission): the file is as it was.  Nothing in the loop of the
\* daemon catches it, main() rejects and its catch handler sets the exit
\* status (1 in the library revision, 0 in the inline one) as the process
\* ends; in the tool the exception is uncaught and node exits with 1.
WriteFails(p) ==
    /\ proc[p].pc \in {"writePending", "writePaired"}
    /\ proc' = [proc EXCEPT ![p] = [NotStarted EXCEPT
                                       !.pc = "exit",
                                       !.wrote = proc[p].wrote,
                                       !.failed = TRUE,
                                       !.exitCode =
                                           IF p = "daemon" /\ impl = "inline"
                                           THEN 0 ELSE 1]]
    /\ UNCHANGED <<approveVars, storeVars, syncVars,
                   fileVars, clock, tokenCounter, impl,
                   identityFile, restarts>>

\* The status of a process that SIGTERM ended: neither pairing script
\* registers a handler, so the signal's default action ends the process;
\* its parent sees 128 + the signal's number.
SignalStatus == 128 + 15

\* The process is killed (SIGTERM or SIGINT, container stop, power loss)
\* where it stands: its memory is gone; what it was approving and how far
\* its writes went is kept for the record.
Crash(p) ==
    /\ Running(p)
    /\ proc' = [proc EXCEPT ![p] = [NotStarted EXCEPT
                                       !.pc = "crashed",
                                       !.exitCode = SignalStatus,
                                       !.requestId = proc[p].requestId,
                                       !.deviceId = proc[p].deviceId,
                                       !.wrote = proc[p].wrote]]
    /\ UNCHANGED <<approveVars, storeVars, syncVars,
                   fileVars, clock, tokenCounter, impl,
                   identityFile, restarts>>

\* The container is started again, or the operator runs the tool again,
\* while the other process is not in the middle of a run.
Restart(p) ==
    /\ proc[p].pc \in {"exit", "crashed"}
    /\ restarts < MaxRestarts
    /\ \A q \in Procs \ {p} : ~Running(q)
    /\ restarts' = restarts + 1
    /\ proc' = [proc EXCEPT ![p] = NotStarted]
    /\ UNCHANGED <<approveVars, storeVars, syncVars,
                   fileVars, clock, tokenCounter, impl,
                   identityFile>>

Next ==
    \/ DaemonStart
    \/ DaemonPoll
    \/ DaemonScan
    \/ DaemonSleep
    \/ ToolStart
    \/ ToolReadPending
    \/ ToolReadPaired
    \/ \E p \in Procs : WritePending(p)
    \/ \E p \in Procs : WritePaired(p)
    \/ \E p \in Procs : WriteFails(p)
    \/ IdentityAppears
    \/ \E p \in Procs : Crash(p)
    \/ \E p \in Procs : Restart(p)

Spec == Init /\ [][Next]_vars

(***************************************************************************)
(* The manual tool run alone, once, over every pending collection of the   *)
(* catalogue.                                                              *)
(***************************************************************************)
InitTool ==
    /\ impl \in {"lib", "inline"}
    /\ identityFile = UndefinedStr
    /\ \E n \in 0..MaxPending :
           pendingFile \in PendingInputs(RequestIds, n)
    /\ pairedFile \in PairedInputs
    /\ proc = [p \in Procs |-> NotStarted]
    /\ restarts = 0
    /\ consumed = [k \in RequestIds |-> 0]
    /\ stalePending = FALSE
    /\ fileState = FilesOk
    /\ clock = 1
    /\ tokenCounter = 0
    /\ ApproveIdle
    /\ StoreIdle
    /\ SyncIdle

NextTool ==
    \/ ToolStart
    \/ ToolReadPending
    \/ ToolReadPaired
    \/ WritePending("tool")
    \/ WritePaired("tool")
    \/ WriteFails("tool")

SpecTool == InitTool /\ [][NextTool]_vars

(***************************************************************************)
(* The daemon and the tool started over store files in every condition:    *)
(* a collection, no file, text that is no JSON, JSON that is no object.    *)
(***************************************************************************)
InitLoad ==
    /\ impl \in {"lib", "inline"}
    /\ identityFile \in IdentityInputs
    /\ fileState \in [pending : FileStates, paired : FileStates]
    /\ IF fileState.pending = "ok"
       THEN \E n \in 0..MaxPending :
                pendingFile \in PendingInputs(SystemRequestIds, n)
       ELSE pendingFile = EmptyPending
    /\ IF fileState.paired = "ok"
       THEN pairedFile \in PairedInputs
       ELSE pairedFile = EmptyMap
    /\ proc = [p \in Procs |-> NotStarted]
    /\ restarts = 0
    /\ consumed = [k \in SystemRequestIds |-> 0]
    /\ stalePending = FALSE
    /\ clock = 1
    /\ tokenCounter = 0
    /\ ApproveIdle
    /\ StoreIdle
    /\ SyncIdle

NextLoad ==
    \/ DaemonStart
    \/ DaemonPoll
    \/ DaemonScan
    \/ DaemonSleep
    \/ ToolStart
    \/ ToolReadPending
    \/ ToolReadPaired
    \/ \E p \in Procs : WritePending(p)
    \/ \E p \in Procs : WritePaired(p)

SpecLoad == InitLoad /\ [][NextLoad]_vars

(***************************************************************************)
(* One run of the self-approval daemon alone, over every pending           *)
(* collection of the catalogue: several requests may be of its own device. *)
(***************************************************************************)
InitDaemon ==
    /\ impl \in {"lib", "inline"}
    /\ identityFile \in IdentityInputs
    /\ \E n \in 0..MaxPending :
           pendingFile \in PendingInputs(RequestIds, n)
    /\ pairedFile \in PairedInputs
    /\ proc = [p \in Procs |-> NotStarted]
    /\ restarts = 0
    /\ consumed = [k \in RequestIds |-> 0]
    /\ stalePending = FALSE
    /\ fileState = FilesOk
    /\ clock = 1
    /\ tokenCounter = 0
    /\ ApproveIdle
    /\ StoreIdle
    /\ SyncIdle

NextDaemon ==
    \/ DaemonStart
    \/ DaemonPoll
    \/ DaemonScan
    \/ DaemonSleep
    \/ WritePending("daemon")
    \/ WritePaired("daemon")
    \/ WriteFails("daemon")

SpecDaemon == InitDaemon /\ [][NextDaemon]_vars

(***************************************************************************)
(* Properties of the daemon and the manual tool.                           *)
(***************************************************************************)
PendingKeys(obj) == Range(obj.keys)

\* The step is p's rename over pending.json.
PendingWriteBy(p) ==
    proc[p].pc = "writePending" /\ proc'[p].wrote = "pending"

\* The step is p's rename over paired.json.
PairedWriteBy(p) == proc[p].pc = "writePaired" /\ proc'[p].wrote = "both"

Finished(p) == proc[p].pc = "exit" /\ proc[p].wrote = "both"

\* C1: the daemon approves its own device only.  Of the pending collection
\* it read, what it renames over pending.json lacks only requests whose
\* trimmed device id is the identity's device id, and what it renames over
\* paired.json differs from the paired collection it read at that device id
\* only.
C1_OnlyOwnDevice ==
    [][LET d == proc["daemon"] IN
       /\ PendingWriteBy("daemon") =>
            \A k \in PendingKeys(d.pendingById) \ PendingKeys(pendingFile') :
                StringTrim(d.pendingById.at[k].deviceId) = d.selfDeviceId
       /\ PairedWriteBy("daemon") =>
            \A dev \in (DOMAIN pairedFile' \cup DOMAIN d.pairedByDeviceId)
                           \ {d.selfDeviceId} :
                /\ dev \in DOMAIN pairedFile'
                /\ dev \in DOMAIN d.pairedByDeviceId
                /\ pairedFile'[dev] = d.pairedByDeviceId[dev]]_vars

\* The daemon has approved its device on its own, and a request of another
\* device is still pending beside a device paired earlier.
C1_Witness ==
    /\ Finished("daemon")
    /\ proc["tool"].pc = "off"
    /\ restarts = 0
    /\ proc["daemon"].deviceId \in DOMAIN pairedFile
    /\ LegacyDevice.deviceId \in DOMAIN pairedFile
    /\ \E k \in PendingKeys(pendingFile) :
           StringTrim(pendingFile.at[k].deviceId) # proc["daemon"].deviceId

\* C7: after a crash between the two writes the approved request is still
\* in pending.json or its device is in paired.json.
C7_CrashRecoverable ==
    \A p \in Procs :
        (proc[p].pc = "crashed" /\ proc[p].wrote = "pending") =>
            \/ proc[p].requestId \in PendingKeys(pendingFile)
            \/ proc[p].deviceId \in DOMAIN pairedFile

\* C8: the last rename wins on each file.  A rename over paired.json drops
\* every device another writer added since the paired collection was read,
\* and a rename over pending.json brings back every request another writer
\* consumed since the pending collection was read.
C8_LastRenameWins ==
    [][\A p \in Procs :
         /\ PairedWriteBy(p) =>
              \A dev \in DOMAIN pairedFile \ DOMAIN proc[p].pairedByDeviceId :
                  dev # proc[p].deviceId => dev \notin DOMAIN pairedFile'
         /\ PendingWriteBy(p) =>
              \A k \in PendingKeys(proc[p].pendingById)
                           \ PendingKeys(pendingFile) :
                  k # proc[p].requestId => k \in PendingKeys(pendingFile')]_vars

\* The daemon and the tool, each run once, have finished approving
\* different requests of different devices, and an update is lost: a
\* device is missing from paired.json or a consumed request is back in
\* pending.json.
C8_Witness ==
    /\ restarts = 0
    /\ Finished("daemon")
    /\ Finished("tool")
    /\ proc["daemon"].requestId # proc["tool"].requestId
    /\ proc["daemon"].deviceId # proc["tool"].deviceId
    /\ \E p \in Procs :
           \/ proc[p].deviceId \notin DOMAIN pairedFile
           \/ proc[p].requestId \in PendingKeys(pendingFile)

\* C9, as stated: whatever the interleaving, a request removed from
\* pending.json by an approval is not there again and is not consumed again.
C9_ConsumedOnce ==
    \A k \in SystemRequestIds :
        /\ consumed[k] <= 1
        /\ consumed[k] >= 1 => k \notin PendingKeys(pendingFile)

\* C9: as long as every rename over pending.json has replaced the content
\* its writer had read, a request removed by an approval is not in
\* pending.json again and is not consumed again.
C9_ConsumedOnceInTurn == ~stalePending => C9_ConsumedOnce

\* The daemon and the tool have approved one after the other, the second
\* from what the first had written, in two runs of the manual tool or one.
C9_Witness ==
    /\ ~stalePending
    /\ Finished("daemon")
    /\ Finished("tool")
    /\ consumed[proc["daemon"].requestId] = 1
    /\ consumed[proc["tool"].requestId] = 1
    /\ proc["daemon"].requestId # proc["tool"].requestId

\* C10, as stated: no step takes a device id out of paired.json.
C10_NeverDeleted == [][DOMAIN pairedFile \subseteq DOMAIN pairedFile']_vars

\* C10: a step takes no device id out of paired.json unless it is a rename
\* over paired.json by a writer whose paired collection is no longer the
\* file's content.
C10_NeverDeletedInTurn ==
    [][(\A p \in Procs :
            PairedWriteBy(p) => proc[p].pairedByDeviceId = pairedFile)
        => DOMAIN pairedFile \subseteq DOMAIN pairedFile']_vars

\* Two approvals, one after the other, have left three devices paired: the
\* one paired earlier and the two approved.
C10_Witness ==
    /\ Finished("daemon")
    /\ Finished("tool")
    /\ {LegacyDevice.deviceId, proc["daemon"].deviceId, proc["tool"].deviceId}
           \subseteq DOMAIN pairedFile
    /\ proc["daemon"].deviceId # proc["tool"].deviceId

(***************************************************************************)
(* writeJsonAtomic step by step, beside a reader of the same path.         *)
(*                                                                         *)
(* The directory maps names to inodes; a descriptor keeps its inode        *)
(* whatever happens to the name.  The text of a document is written in     *)
(* DocLen pieces.  randomUUID() returns a value it has not returned        *)
(* before.                                                                 *)
(***************************************************************************)
\* Pieces of one document's text.
DocLen == 2

\* readFileSync calls of the reader.
MaxReads == 2

FilePath == "paired.json"

\* The name filePath itself.
PathName(filePath) == [path |-> filePath, suffix |-> 0]

\* A mutant: the text is written under the destination's own name.
SameName(filePath, uuid) == PathName(filePath)

\* const tmp = `${filePath}.${crypto.randomUUID()}.tmp`
TmpName(filePath, uuid) == [path |-> filePath, suffix |-> uuid]

\* `${JSON.stringify(value, null, 2)}\n` for the value of writer d, or for
\* the value the file held before ("old").
Text(d) == [i \in 1..DocLen |-> [doc |-> d, piece |-> i]]

InitStore ==
    /\ \/ /\ dir = [n \in {} |-> 0]
          /\ inodes = <<>>
       \/ \E mode \in {"0600", "0644"} :
            /\ dir = [n \in {PathName(FilePath)} |-> 1]
            /\ inodes = <<[data |-> Text("old"), mode |-> mode]>>
    /\ writer = [w \in Writers |-> WriterIdle]
    /\ reader = ReaderIdle
    /\ uuids = 0
    /\ shell = ShellOff
    /\ SystemIdle
    /\ SyncIdle
    /\ ApproveIdle
    /\ clock = 1
    /\ tokenCounter = 0

storeFrame ==
    <<approveVars, systemVars, syncVars, clock, tokenCounter, shell>>

\* mkdirSync (the lib revision), the temp name, and the open of
\* writeFileSync(tmp, text, {mode}): the file is created empty with the
\* mode, or truncated if the name exists.
WriteOpen(w) ==
    /\ writer[w].pc = "off"
    /\ \E revision \in {"lib", "watch"} :
         LET uuid == uuids + 1
             tmp == TmpName(FilePath, uuid)
             exists == tmp \in DOMAIN dir
             fd == IF exists THEN dir[tmp] ELSE Len(inodes) + 1
         IN  /\ uuids' = uuid
             /\ inodes' = IF exists
                          THEN [inodes EXCEPT ![fd].data = <<>>]
                          ELSE Append(inodes, [data |-> <<>>, mode |-> "0600"])
             /\ dir' = [n \in DOMAIN dir \cup {tmp} |->
                           IF n = tmp THEN fd ELSE dir[n]]
             /\ writer' = [writer EXCEPT ![w] =
                              [pc |-> "write", revision |-> revision,
                               uuid |-> uuid, fd |-> fd, written |-> 0]]
    /\ UNCHANGED <<storeFrame, reader>>

\* One write(2) of writeFileSync; after the last the file is closed.
WriteText(w) ==
    /\ writer[w].pc = "write"
    /\ LET n == writer[w].written + 1 IN
       /\ inodes' = [inodes EXCEPT ![writer[w].fd].data =
                                       Append(@, Text(w)[n])]
       /\ writer' = [writer EXCEPT
                        ![w].written = n,
                        ![w].pc = IF n = DocLen THEN "chmodTmp" ELSE "write"]
    /\ UNCHANGED <<storeFrame, dir, reader, uuids>>

\* try { fs.chmodSync(tmp, mode) } catch { ... }
WriteChmodTmp(w) ==
    /\ writer[w].pc = "chmodTmp"
    /\ LET tmp == TmpName(FilePath, writer[w].uuid) IN
       \E ok \in BOOLEAN :
           inodes' = IF ok /\ tmp \in DOMAIN dir
                     THEN [inodes EXCEPT ![dir[tmp]].mode = "0600"]
                     ELSE inodes
    /\ writer' = [writer EXCEPT ![w].pc = "rename"]
    /\ UNCHANGED <<storeFrame, dir, reader, uuids>>

\* fs.renameSync(tmp, filePath): the destination's name is given the temp
\* file's inode and the temp name is gone; it throws when there is no tmp.
WriteRename(w) ==
    /\ writer[w].pc = "rename"
    /\ LET tmp == TmpName(FilePath, writer[w].uuid)
           dest == PathName(FilePath)
       IN  IF tmp \in DOMAIN dir
           THEN /\ dir' = [n \in (DOMAIN dir \ {tmp}) \cup {dest} |->
                              IF n = dest THEN dir[tmp] ELSE dir[n]]
                /\ writer' = [writer EXCEPT ![w].pc =
                                 IF writer[w].revision = "lib"
                                 THEN "chmodDest" ELSE "done"]
           ELSE /\ dir' = dir
                /\ writer' = [writer EXCEPT ![w].pc = "failed"]
    /\ UNCHANGED <<storeFrame, inodes, reader, uuids>>

\* try { fs.chmodSync(filePath, mode) } catch { ... } (the lib revision)
WriteChmodDest(w) ==
    /\ writer[w].pc = "chmodDest"
    /\ LET dest == PathName(FilePath) IN
       \E ok \in BOOLEAN :
           inodes' = IF ok /\ dest \in DOMAIN dir
                     THEN [inodes EXCEPT ![dir[dest]].mode = "0600"]
                     ELSE inodes
    /\ writer' = [writer EXCEPT ![w].pc = "done"]
    /\ UNCHANGED <<storeFrame, dir, reader, uuids>>

\* The open of fs.readFileSync(filePath, "utf8"); without the file it throws
\* and readJsonFile returns the fallback.
ReadOpen ==
    /\ reader.pc \in {"off", "done"}
    /\ reader.reads < MaxReads
    /\ LET dest == PathName(FilePath) IN
       reader' = IF dest \in DOMAIN dir
                 THEN [pc |-> "read", fd |-> dir[dest], seen |-> <<>>,
                       reads |-> reader.reads + 1]
                 ELSE [pc |-> "done", fd |-> 0, seen |-> <<>>,
                       reads |-> reader.reads + 1]
    /\ UNCHANGED <<storeFrame, dir, inodes, writer, uuids>>

\* The read of fs.readFileSync: what the open file holds now.
ReadText ==
    /\ reader.pc = "read"
    /\ reader' = [reader EXCEPT !.pc = "done",
                                !.seen = inodes[reader.fd].data]
    /\ UNCHANGED <<storeFrame, dir, inodes, writer, uuids>>

NextStore ==
    \/ \E w \in Writers : WriteOpen(w)
    \/ \E w \in Writers : WriteText(w)
    \/ \E w \in Writers : WriteChmodTmp(w)
    \/ \E w \in Writers : WriteRename(w)
    \/ \E w \in Writers : WriteChmodDest(w)
    \/ ReadOpen
    \/ ReadText

SpecStore == InitStore /\ [][NextStore]_vars

\* The writer's rename has happened.
Renamed(w) == writer[w].pc \in {"chmodDest", "done"}

\* The writer has a temp file.
Writing(w) == writer[w].pc \in {"write", "chmodTmp", "rename"}

\* The complete texts the destination may hold: the old one and those of
\* the writes that have renamed.
Published == {Text("old")} \cup {Text(w) : w \in {x \in Writers : Renamed(x)}}

\* C6: at every step of concurrent writes the destination holds a complete
\* text, the old one or one whose write has renamed, a reader that opened
\* the destination has read such a text, and every write in progress has a
\* temp file of its own under a name that is not the destination's.
C6_NoPartialDocument ==
    /\ PathName(FilePath) \in DOMAIN dir =>
           inodes[dir[PathName(FilePath)]].data \in Published
    /\ (reader.pc = "done" /\ reader.fd # 0) => reader.seen \in Published
    /\ \A w \in Writers :
           Writing(w) =>
               LET tmp == TmpName(FilePath, writer[w].uuid) IN
               /\ tmp # PathName(FilePath)
               /\ tmp \in DOMAIN dir
               /\ dir[tmp] = writer[w].fd
               /\ \A x \in Writers \ {w} :
                      Writing(x) => writer[x].fd # writer[w].fd

\* The reader has read the complete text of one write while the other
\* write has put a part of its text in its temp file.
C6_Witness ==
    /\ reader.pc = "done"
    /\ reader.seen = Text("w1")
    /\ writer["w2"].pc = "write"
    /\ writer["w2"].written = 1

(***************************************************************************)
(* The writes of the entrypoint: bootstrap_codex_auth_profile writes       *)
(* auth-profiles.json and enforce_runtime_config, after it, the runtime    *)
(* config, each with fs.writeFileSync on the file's own name, beside a     *)
(* reader of either file.                                                  *)
(***************************************************************************)
AuthStorePath == "auth-profiles.json"

RuntimeConfigPath == "openclaw.runtime.json"

\* The file each function of the entrypoint writes.
EntrypointPaths ==
    [bootstrap |-> AuthStorePath, config |-> RuntimeConfigPath]

\* The process of the entrypoint.
Entrypoint == "w1"

InitEntrypoint ==
    /\ \E files \in {<<>>, <<AuthStorePath>>, <<RuntimeConfigPath>>,
                     <<AuthStorePath, RuntimeConfigPath>>} :
       \E mode \in {"0600", "0644"} :
         /\ dir = [n \in {PathName(files[i]) : i \in 1..Len(files)} |->
                      CHOOSE i \in 1..Len(files) : n = PathName(files[i])]
         /\ inodes = [i \in 1..Len(files) |->
                         [data |-> Text("old"), mode |-> mode]]
    /\ writer = [w \in Writers |-> WriterIdle]
    /\ reader = ReaderIdle
    /\ uuids = 0
    /\ shell = ShellOff
    /\ SystemIdle
    /\ SyncIdle
    /\ ApproveIdle
    /\ clock = 1
    /\ tokenCounter = 0

\* The open of fs.writeFileSync(path, text, { mode: 0o600 }): the file is
\* created empty with the mode, or truncated, its mode as it was, if the
\* name exists.  bootstrap_codex_auth_profile writes when the profile
\* differs, enforce_runtime_config, which runs after it, when the text
\* differs.
DirectOpen ==
    /\ \E function \in DOMAIN EntrypointPaths :
         /\ \/ writer[Entrypoint].pc = "off"
            \/ /\ writer[Entrypoint].pc = "done"
               /\ writer[Entrypoint].revision = "bootstrap"
               /\ function = "config"
         /\ LET dest == PathName(EntrypointPaths[function])
                exists == dest \in DOMAIN dir
                fd == IF exists THEN dir[dest] ELSE Len(inodes) + 1
            IN  /\ inodes' = IF exists
                             THEN [inodes EXCEPT ![fd].data = <<>>]
                             ELSE Append(inodes,
                                         [data |-> <<>>, mode |-> "0600"])
                /\ dir' = [n \in DOMAIN dir \cup {dest} |->
                              IF n = dest THEN fd ELSE dir[n]]
                /\ writer' = [writer EXCEPT ![Entrypoint] =
                                 [pc |-> "write", revision |-> function,
                                  uuid |-> 0, fd |-> fd, written |-> 0]]
    /\ UNCHANGED <<storeFrame, reader, uuids>>

\* One write(2) of that writeFileSync; after the last the file is closed.
DirectText ==
    /\ writer[Entrypoint].pc = "write"
    /\ LET w == writer[Entrypoint]
           n == w.written + 1
       IN
       /\ inodes' = [inodes EXCEPT ![w.fd].data =
                                       Append(@, Text(w.revision)[n])]
       /\ writer' = [writer EXCEPT
                        ![Entrypoint].written = n,
                        ![Entrypoint].pc =
                            IF n < DocLen THEN "write"
                            ELSE IF w.revision = "bootstrap"
                                 THEN "chmodDest" ELSE "done"]
    /\ UNCHANGED <<storeFrame, dir, reader, uuids>>

\* try { fs.chmodSync(authStorePath, 0o600) } catch {}
DirectChmod ==
    /\ writer[Entrypoint].pc = "chmodDest"
    /\ \E ok \in BOOLEAN :
           inodes' = IF ok
                     THEN [inodes EXCEPT ![writer[Entrypoint].fd].mode = "0600"]
                     ELSE inodes
    /\ writer' = [writer EXCEPT ![Entrypoint].pc = "done"]
    /\ UNCHANGED <<storeFrame, dir, reader, uuids>>

\* The open of a readFileSync of one of the two files by another process.
DirectReadOpen ==
    /\ reader.pc \in {"off", "done"}
    /\ reader.reads < MaxReads
    /\ \E function \in DOMAIN EntrypointPaths :
         LET dest == PathName(EntrypointPaths[function]) IN
         reader' = IF dest \in DOMAIN dir
                   THEN [pc |-> "read", fd |-> dir[dest], seen |-> <<>>,
                         reads |-> reader.reads + 1]
                   ELSE [pc |-> "done", fd |-> 0, seen |-> <<>>,
                         reads |-> reader.reads + 1]
    /\ UNCHANGED <<storeFrame, dir, inodes, writer, uuids>>

NextEntrypoint ==
    \/ DirectOpen
    \/ DirectText
    \/ DirectChmod
    \/ DirectReadOpen
    \/ ReadText

SpecEntrypoint == InitEntrypoint /\ [][NextEntrypoint]_vars

\* The complete texts a file of the entrypoint may hold.
CompleteTexts ==
    {Text("old")} \cup {Text(function) : function \in DOMAIN EntrypointPaths}

\* C30: every write of the scripts is made under a temp name and renamed,
\* with mode 0600: each file holds a complete text at every step, a
\* reader of it has read a complete text, and a file that has been written
\* has mode 0600.
C30_WritesAtomic ==
    /\ \A n \in DOMAIN dir : inodes[dir[n]].data \in CompleteTexts
    /\ (reader.pc = "done" /\ reader.fd # 0) => reader.seen \in CompleteTexts
    /\ writer[Entrypoint].pc = "done" =>
           inodes[writer[Entrypoint].fd].mode = "0600"

(***************************************************************************)
(* The secrets of the entrypoint.  The shell's environment holds, for each *)
(* secret variable, the plain value and the value of its _FILE variable    *)
(* (unset and empty are alike under ${name:-}); load_secret_file is called *)
(* for each in turn, then the required ones are tested, then the services  *)
(* are started.                                                            *)
(***************************************************************************)
\* Secret variables that are not set up as they should be.
MaxOddSecrets == 2

\* The load_secret_file calls, in order.
SecretVars ==
    <<"DISCORD_BOT_TOKEN", "OPENCLAW_GATEWAY_TOKEN",
      "OPENCLAW_DISCORD_GUILD_ID", "OPENCLAW_DISCORD_CHANNEL_IDS",
      "OPENCLAW_DISCORD_USER_IDS", "OPENCLAW_DISCORD_CHANNEL_ID",
      "OPENCLAW_DISCORD_USER_ID">>

SecretNames == {SecretVars[i] : i \in 1..Len(SecretVars)}

\* The value of a _FILE variable that is set.
SecretPath == <<Ch.slash, Ch.a>>

\* What is at the path of a secret file.
SecretFiles ==
    [good |-> [symlink |-> FALSE, readable |-> TRUE,
               content |-> <<Ch.a, Ch.cr, Ch.nl>>],
     link |-> [symlink |-> TRUE, readable |-> TRUE,
               content |-> <<Ch.a, Ch.cr, Ch.nl>>],
     unreadable |-> [symlink |-> FALSE, readable |-> FALSE, content |-> <<>>],
     empty |-> [symlink |-> FALSE, readable |-> TRUE, content |-> <<>>],
     crlf |-> [symlink |-> FALSE, readable |-> TRUE,
               content |-> <<Ch.cr, Ch.nl>>]]

\* How one secret is set up at the start of the container.
SecretSetups ==
    [plain : {<<>>, <<Ch.nl>>, <<Ch.a>>}, path : {SecretPath},
     file : DOMAIN SecretFiles]
        \cup [plain : {<<>>, <<Ch.nl>>, <<Ch.a>>}, path : {<<>>},
              file : {"unreadable"}]

\* The set-up of the compose file: the secret in a file, no plain value.
GoodSetup == [plain |-> <<>>, path |-> SecretPath, file |-> "good"]

\* "$(...)": the output of the command without its trailing newlines.
RECURSIVE CommandSubstitution(_)
CommandSubstitution(out) ==
    IF out # <<>> /\ out[Len(out)] = Ch.nl
    THEN CommandSubstitution(SubSeq(out, 1, Len(out) - 1))
    ELSE out

\* "$(_indirect_var name)": printf '%s' "${name:-}" in a command
\* substitution.
IndirectVar(env, name) == CommandSubstitution(env[name])

\* tr -d '\r'
TrDeleteCr(text) == SelectSeq(text, LAMBDA c : c # Ch.cr)

\* echo "[fatal] ..." >&2; exit 1
ShellFatal(sh, message) ==
    [sh EXCEPT !.pc = "exit", !.exitCode = 1, !.message = message]

\* load_secret_file "$var_name"
load_secret_file(sh, var_name) ==
    LET file_path == IndirectVar(sh.fileEnv, var_name)
        plain_value == IndirectVar(sh.env, var_name)
        file == SecretFiles[sh.files[var_name]]
        value == CommandSubstitution(TrDeleteCr(file.content))
    IN  IF file_path = <<>>
        THEN IF plain_value # <<>>
             THEN ShellFatal(sh, "must be provided via _FILE")
             ELSE [sh EXCEPT !.next = @ + 1]
        ELSE IF plain_value # <<>>
        THEN ShellFatal(sh, "do not set both")
        ELSE IF file.symlink
        THEN ShellFatal(sh, "secret file must not be a symlink")
        ELSE IF ~file.readable
        THEN ShellFatal(sh, "secret file not readable")
        ELSE IF value = <<>>
        THEN ShellFatal(sh, "secret file is empty")
        ELSE [sh EXCEPT !.env[var_name] = value,
                        !.fileEnv[var_name] = <<>>,
                        !.next = @ + 1]

\* [ -z "${NAME:-}" ]
IsUnset(env, name) == env[name] = <<>>

InitSecrets ==
    /\ \E odd \in SUBSET SecretNames :
         /\ Cardinality(odd) <= MaxOddSecrets
         /\ \E setup \in [odd -> SecretSetups] :
              LET at == [v \in SecretNames |->
                            IF v \in odd THEN setup[v] ELSE GoodSetup]
                  env == [v \in SecretNames |-> at[v].plain]
              IN  shell = [pc |-> "load", next |-> 1,
                           env |-> env, atStart |-> at,
                           fileEnv |-> [v \in SecretNames |-> at[v].path],
                           files |-> [v \in SecretNames |-> at[v].file],
                           exitCode |-> 0, message |-> "",
                           running |-> {}]
    /\ dir = [n \in {} |-> 0]
    /\ inodes = <<>>
    /\ writer = [w \in Writers |-> WriterIdle]
    /\ reader = ReaderIdle
    /\ uuids = 0
    /\ SystemIdle
    /\ SyncIdle
    /\ ApproveIdle
    /\ clock = 1
    /\ tokenCounter = 0

shellFrame ==
    <<approveVars, systemVars, syncVars, clock, tokenCounter,
      dir, inodes, writer, reader, uuids>>

\* The next of the seven load_secret_file calls.
LoadSecretFile ==
    /\ shell.pc = "load"
    /\ shell.next <= Len(SecretVars)
    /\ shell' = load_secret_file(shell, SecretVars[shell.next])
    /\ UNCHANGED shellFrame

\* The tests of the required secrets after the loads.
RequireSecrets ==
    /\ shell.pc = "load"
    /\ shell.next > Len(SecretVars)
    /\ LET env == shell.env IN
       shell' =
           IF IsUnset(env, "DISCORD_BOT_TOKEN")
           THEN ShellFatal(shell, "DISCORD_BOT_TOKEN is required")
           ELSE IF IsUnset(env, "OPENCLAW_GATEWAY_TOKEN")
           THEN ShellFatal(shell, "OPENCLAW_GATEWAY_TOKEN is required")
           ELSE IF \/ IsUnset(env, "OPENCLAW_DISCORD_GUILD_ID")
                   \/ /\ IsUnset(env, "OPENCLAW_DISCORD_CHANNEL_IDS")
                      /\ IsUnset(env, "OPENCLAW_DISCORD_CHANNEL_ID")
                   \/ /\ IsUnset(env, "OPENCLAW_DISCORD_USER_IDS")
                      /\ IsUnset(env, "OPENCLAW_DISCORD_USER_ID")
           THEN ShellFatal(shell, "OPENCLAW_DISCORD_* are required")
           ELSE [shell EXCEPT !.pc = "bootstrap"]
    /\ UNCHANGED shellFrame

\* bootstrap_codex_auth_profile; enforce_runtime_config; then
\* auto-approve-self-pairing in the background, when the script is there.
StartDaemons ==
    /\ shell.pc = "bootstrap"
    /\ \E there \in BOOLEAN :
         shell' = [shell EXCEPT
                      !.pc = "exec",
                      !.running = IF there THEN @ \cup {"daemon"} ELSE @]
    /\ UNCHANGED shellFrame

\* exec "$@"
ExecGateway ==
    /\ shell.pc = "exec"
    /\ shell' = [shell EXCEPT !.pc = "gateway",
                              !.running = @ \cup {"gateway"}]
    /\ UNCHANGED shellFrame

NextSecrets ==
    \/ LoadSecretFile
    \/ RequireSecrets
    \/ StartDaemons
    \/ ExecGateway

SpecSecrets == InitSecrets /\ [][NextSecrets]_vars

(***************************************************************************)
(* Credential sync: auth.json mirrored into auth-profiles.json.            *)
(*                                                                         *)
(* Two revisions: the daemon watch-codex-auth.ts ("watch"), and the        *)
(* one-shot bootstrap_codex_auth_profile of the older entrypoint           *)
(* ("bootstrap"), which runs once at every container start.                *)
(***************************************************************************)
PROFILE_ID == "openai-codex:default"

\* The id of a profile the sync does not own.
OtherProfileId == "anthropic:default"

\* NaN, the time value of an invalid Date.
NaN == -1

\* 60 * 60 * 1000
HourMs == 60 * 60 * 1000

\* new Date(text).getTime() for the texts of the model.
IsoInstants == [text \in {"1970-01-01T00:00:05.000Z"} |-> 5000]

DateGetTime(text) ==
    IF text \in DOMAIN IsoInstants THEN IsoInstants[text] ELSE NaN

\* safeReadJson(...) === null: no file, unreadable, or not JSON.
NullJson ==
    [kind |-> "null",
     tokens |-> [isObject |-> FALSE, access_token |-> UndefinedStr,
                 refresh_token |-> UndefinedStr, account_id |-> UndefinedStr],
     last_refresh |-> ""]

\* A CodexAuth document; last_refresh "" stands for an absent one too (both
\* are falsy).
CodexAuth(access_token, refresh_token, account_id, last_refresh) ==
    [kind |-> "object",
     tokens |-> [isObject |-> TRUE, access_token |-> access_token,
                 refresh_token |-> refresh_token, account_id |-> account_id],
     last_refresh |-> last_refresh]

\* The contents auth.json takes in the model.
SourceCatalogue ==
    [none |-> NullJson,
     scalar |-> [NullJson EXCEPT !.kind = "scalar"],
     bare |-> [NullJson EXCEPT !.kind = "object"],
     good |-> CodexAuth(<<Ch.sp, Ch.a>>, <<Ch.b>>, UndefinedStr,
                        "1970-01-01T00:00:05.000Z"),
     blank |-> CodexAuth(<<Ch.sp>>, <<Ch.b>>, <<Ch.p>>,
                         "1970-01-01T00:00:05.000Z"),
     half |-> CodexAuth(<<Ch.a>>, UndefinedStr, UndefinedStr, ""),
     undated |-> CodexAuth(<<Ch.a>>, <<Ch.b>>, <<>>, ""),
     misdated |-> CodexAuth(<<Ch.e>>, <<Ch.b, Ch.sp>>, <<Ch.p>>, "soon")]

SourceNames == DOMAIN SourceCatalogue

\* buildProfile(codex) === null
NullProfile ==
    [type |-> "null", provider |-> "", access |-> <<>>, refresh |-> <<>>,
     expires |-> NaN, accountId |-> UndefinedStr]

\* A mutant: the tokens are taken as they are, untrimmed.
buildProfileUntrimmed(codex, now) ==
    LET tokens == codex.tokens
        text(v) == IF tokens.isObject /\ IsString(v) THEN v ELSE <<>>
    IN  IF text(tokens.access_token) = <<>> \/ text(tokens.refresh_token) = <<>>
        THEN [type |-> "null", provider |-> "", access |-> <<>>,
              refresh |-> <<>>, expires |-> NaN, accountId |-> UndefinedStr]
        ELSE [type |-> "oauth", provider |-> "openai-codex",
              access |-> text(tokens.access_token),
              refresh |-> text(tokens.refresh_token),
              expires |-> now + HourMs,
              accountId |-> tokens.account_id]

\* A mutant: the expiry is always an hour from now.
buildProfileFromNow(codex, now) ==
    buildProfileUntrimmed(
        [codex EXCEPT !.tokens.access_token = TrimIfString(@),
                      !.tokens.refresh_token = TrimIfString(@)], now)

\* buildProfile(codex), at the time now.
buildProfile(codex, now) ==
    LET tokens == codex.tokens
        access == IF tokens.isObject THEN TrimIfString(tokens.access_token)
                  ELSE <<>>
        refresh == IF tokens.isObject THEN TrimIfString(tokens.refresh_token)
                   ELSE <<>>
        lastRefresh == IF codex.last_refresh # ""
                       THEN DateGetTime(codex.last_refresh) ELSE NaN
        expires == IF lastRefresh # NaN THEN lastRefresh + HourMs
                   ELSE now + HourMs
        accountId == IF tokens.isObject /\ IsString(tokens.account_id)
                     THEN tokens.account_id ELSE UndefinedStr
    IN  IF access = <<>> \/ refresh = <<>>
        THEN NullProfile
        ELSE [type |-> "oauth", provider |-> "openai-codex",
              access |-> access, refresh |-> refresh, expires |-> expires,
              accountId |-> accountId]

\* A mutant: no two profiles are equal.
profilesNeverEqual(profiles, b) == FALSE

\* profilesEqual(existingProfiles[PROFILE_ID], b)
profilesEqual(profiles, b) ==
    /\ PROFILE_ID \in DOMAIN profiles
    /\ LET a == profiles[PROFILE_ID] IN
       /\ a.type = b.type
       /\ a.provider = b.provider
       /\ a.access = b.access
       /\ a.refresh = b.refresh
       /\ a.expires = b.expires
       /\ a.accountId = b.accountId

\* typeof existing.version !== "number", or no version at all.
NoVersion == -2

\* auth-profiles.json absent, unreadable or not JSON.
MissingStore == [exists |-> FALSE, version |-> NoVersion, profiles |-> EmptyMap]

AuthStore(version, profiles) ==
    [exists |-> TRUE, version |-> version, profiles |-> profiles]

\* existing && typeof existing.version === "number" ? existing.version : 1
existingVersion(existing) ==
    IF existing.exists /\ existing.version # NoVersion
    THEN existing.version ELSE 1

\* if (!current.version || typeof current.version !== "number")
\*     current.version = 1   (the bootstrap revision)
currentVersion(existing) ==
    IF existing.exists /\ existing.version # NoVersion /\ existing.version # 0
    THEN existing.version ELSE 1

\* syncOnce() up to its write: what it decides, and the store it would write.
syncOnce(codex, existing, now) ==
    LET nextProfile == buildProfile(codex, now)
        existingProfiles == IF existing.exists THEN existing.profiles
                            ELSE EmptyMap
    IN  IF codex.kind # "object"
        THEN [outcome |-> "unreadable", store |-> existing]
        ELSE IF nextProfile = NullProfile
        THEN [outcome |-> "no-tokens", store |-> existing]
        ELSE IF profilesEqual(existingProfiles, nextProfile)
        THEN [outcome |-> "same", store |-> existing]
        ELSE [outcome |-> "write",
              store |-> AuthStore(existingVersion(existing),
                                  PutKey(existingProfiles, PROFILE_ID,
                                         nextProfile))]

\* nextProfile of the bootstrap revision: ...(accountId ? { accountId } : {})
\* leaves an empty account id out.
bootstrapProfile(codex, now) ==
    LET built == buildProfile(codex, now) IN
    IF built.accountId = <<>>
    THEN [built EXCEPT !.accountId = UndefinedStr]
    ELSE built

\* The bootstrap revision up to its write; a version 0 counts as no version.
bootstrapSync(codex, existing, now) ==
    LET built == buildProfile(codex, now)
        nextProfile == bootstrapProfile(codex, now)
        profiles == IF existing.exists THEN existing.profiles ELSE EmptyMap
    IN  IF codex.kind # "object"
        THEN [outcome |-> "unreadable", store |-> existing]
        ELSE IF built = NullProfile
        THEN [outcome |-> "no-tokens", store |-> existing]
        ELSE IF profilesEqual(profiles, nextProfile)
        THEN [outcome |-> "same", store |-> existing]
        ELSE [outcome |-> "write",
              store |-> AuthStore(currentVersion(existing),
                                  PutKey(profiles, PROFILE_ID, nextProfile))]

\* Writes of auth.json by its owner during a run.
MaxSourceWrites == 1

\* A profile of another provider.
OtherProfile ==
    [type |-> "oauth", provider |-> "anthropic", access |-> <<Ch.o>>,
     refresh |-> <<Ch.o>>, expires |-> 0, accountId |-> UndefinedStr]

\* The profile maps auth-profiles.json starts with: none, and another
\* provider's profile beside the profile of the source "good".
ProfilesInputs ==
    {EmptyMap,
     [id \in {OtherProfileId, PROFILE_ID} |->
         IF id = PROFILE_ID THEN buildProfile(SourceCatalogue.good, 0)
         ELSE OtherProfile]}

StoreInputs ==
    {MissingStore}
        \cup {AuthStore(v, p) : v \in {NoVersion, 0, 2}, p \in ProfilesInputs}

SourceDoc == SourceCatalogue[sourceFile.content]

\* The cycle of the running revision; a write may fail (fails), and then
\* the store file is as it was.
CycleResult(fails, now) ==
    LET r == IF syncd.revision = "watch"
             THEN syncOnce(SourceDoc, authStoreFile, now)
             ELSE bootstrapSync(SourceDoc, authStoreFile, now)
    IN  IF r.outcome = "write" /\ fails
        THEN [outcome |-> "failed", store |-> authStoreFile]
        ELSE r

LastTwo(log) == IF Len(log) > 2 THEN Tail(log) ELSE log

\* One cycle runs at a time Date.now() not before the last one read: the
\* store file is replaced or left, and the cycle is put on record.
RunCycle(fails) ==
    \E now \in {clock, IF clock < MaxClock THEN clock + 1 ELSE clock} :
        /\ fails => CycleResult(fails, now).outcome = "failed"
        /\ authStoreFile' = CycleResult(fails, now).store
        /\ clock' = now
        /\ cycles' = LastTwo(Append(cycles,
                         [n |-> IF cycles = <<>> THEN 1
                                ELSE cycles[Len(cycles)].n + 1,
                          source |-> sourceFile.content,
                          mtime |-> sourceFile.mtime,
                          before |-> authStoreFile,
                          after |-> CycleResult(fails, now).store,
                          outcome |-> CycleResult(fails, now).outcome,
                          now |-> now]))

syncFrame ==
    <<approveVars, systemVars, storeVars, tokenCounter>>

InitSync ==
    /\ sourceFile \in [content : SourceNames, mtime : {0}]
    /\ authStoreFile \in StoreInputs
    /\ syncd \in [revision : {"watch", "bootstrap"}, pc : {"off"},
                  timer : {FALSE}, statSeen : {0}, exitCode : {0},
                  starts : {0}]
    /\ cycles = <<>>
    /\ SystemIdle
    /\ StoreIdle
    /\ ApproveIdle
    /\ clock = 1
    /\ tokenCounter = 0

\* The container starts.  watch: the initial syncOnce() in its try/catch,
\* then fs.watchFile.  bootstrap: the one cycle; an uncaught write error
\* ends node with a failure and, under set -e, the entrypoint.
SyncStart ==
    /\ syncd.pc = "off"
    /\ \E fails \in BOOLEAN :
         /\ RunCycle(fails)
         /\ syncd' =
              IF syncd.revision = "watch"
              THEN [syncd EXCEPT !.pc = "watching",
                                 !.statSeen = sourceFile.mtime]
              ELSE IF fails
              THEN [syncd EXCEPT !.pc = "aborted", !.exitCode = 1]
              ELSE [syncd EXCEPT !.pc = "done", !.exitCode = 0]
    /\ UNCHANGED <<syncFrame, sourceFile>>

\* What the owner of auth.json writes during a run: the content it has, the
\* file taken away, refreshed tokens with and without a valid last_refresh.
SourceWrites == {sourceFile.content, "none", "good", "misdated"}

\* The owner of auth.json writes it.
SourceChanges ==
    /\ sourceFile.mtime < MaxSourceWrites
    /\ \E c \in SourceWrites :
           sourceFile' = [content |-> c, mtime |-> sourceFile.mtime + 1]
    /\ UNCHANGED <<syncFrame, authStoreFile, syncd, cycles, clock>>

\* The stat poll of fs.watchFile sees a change: onFileChange() arms the
\* debounce timer anew.
WatchPoll ==
    /\ syncd.pc = "watching"
    /\ syncd.statSeen # sourceFile.mtime
    /\ syncd' = [syncd EXCEPT !.timer = TRUE, !.statSeen = sourceFile.mtime]
    /\ UNCHANGED <<syncFrame, sourceFile, authStoreFile, cycles, clock>>

\* The debounce timer fires: debounceTimer = null; try { syncOnce() }
\* catch { log }.
TimerFires ==
    /\ syncd.pc = "watching"
    /\ syncd.timer
    /\ \E fails \in BOOLEAN : RunCycle(fails)
    /\ syncd' = [syncd EXCEPT !.timer = FALSE]
    /\ UNCHANGED <<syncFrame, sourceFile>>

\* SIGTERM or SIGINT: cleanup(); process.exit(0)
Signal ==
    /\ syncd.pc = "watching"
    /\ syncd' = [syncd EXCEPT !.pc = "exit", !.timer = FALSE, !.exitCode = 0]
    /\ UNCHANGED <<syncFrame, sourceFile, authStoreFile, cycles, clock>>

\* The container is started again.
SyncRestart ==
    /\ syncd.pc \in {"done", "aborted", "exit"}
    /\ syncd.starts < MaxRestarts
    /\ syncd' = [syncd EXCEPT !.pc = "off", !.starts = @ + 1]
    /\ UNCHANGED <<syncFrame, sourceFile, authStoreFile, cycles, clock>>

NextSync ==
    \/ SyncStart
    \/ SourceChanges
    \/ WatchPoll
    \/ TimerFires
    \/ Signal
    \/ SyncRestart

SpecSync == InitSync /\ [][NextSync]_vars

(***************************************************************************)
(* One container start with both revisions: the entrypoint runs            *)
(* bootstrap_codex_auth_profile, and watch-codex-auth.ts is started after  *)
(* it and runs its initial syncOnce().  syncd.pc is "done" between the two.*)
(***************************************************************************)
\* The cycle of one revision, as RunCycle puts it on record.
RunCycleOf(revision, fails) ==
    \E now \in {clock, IF clock < MaxClock THEN clock + 1 ELSE clock} :
        LET r == IF revision = "watch"
                 THEN syncOnce(SourceDoc, authStoreFile, now)
                 ELSE bootstrapSync(SourceDoc, authStoreFile, now)
            result == IF r.outcome = "write" /\ fails
                      THEN [outcome |-> "failed", store |-> authStoreFile]
                      ELSE r
        IN  /\ fails => result.outcome = "failed"
            /\ authStoreFile' = result.store
            /\ clock' = now
            /\ cycles' = LastTwo(Append(cycles,
                             [n |-> IF cycles = <<>> THEN 1
                                    ELSE cycles[Len(cycles)].n + 1,
                              source |-> sourceFile.content,
                              mtime |-> sourceFile.mtime,
                              before |-> authStoreFile,
                              after |-> result.store,
                              outcome |-> result.outcome,
                              now |-> now]))

InitBoot ==
    /\ sourceFile \in [content : SourceNames, mtime : {0}]
    /\ authStoreFile \in StoreInputs
    /\ syncd = [revision |-> "bootstrap", pc |-> "off", timer |-> FALSE,
                statSeen |-> 0, exitCode |-> 0, starts |-> 0]
    /\ cycles = <<>>
    /\ SystemIdle
    /\ StoreIdle
    /\ ApproveIdle
    /\ clock = 1
    /\ tokenCounter = 0

\* bootstrap_codex_auth_profile: an uncaught write error ends node with a
\* failure and, under set -e, the entrypoint.
BootstrapCodexAuthProfile ==
    /\ syncd.pc = "off"
    /\ \E fails \in BOOLEAN :
         /\ RunCycleOf("bootstrap", fails)
         /\ syncd' = IF fails
                     THEN [syncd EXCEPT !.pc = "aborted", !.exitCode = 1]
                     ELSE [syncd EXCEPT !.pc = "done"]
    /\ UNCHANGED <<syncFrame, sourceFile>>

\* watch-codex-auth.ts is started: the initial syncOnce() in its try/catch,
\* then fs.watchFile.
WatcherInitialSync ==
    /\ syncd.pc = "done"
    /\ \E fails \in BOOLEAN :
         /\ RunCycleOf("watch", fails)
         /\ syncd' = [syncd EXCEPT !.revision = "watch", !.pc = "watching",
                                   !.statSeen = sourceFile.mtime]
    /\ UNCHANGED <<syncFrame, sourceFile>>

\* The owner of auth.json writes it, before the watcher is there.
SourceChangesAtBoot ==
    /\ syncd.pc \in {"off", "done"}
    /\ SourceChanges

NextBoot ==
    \/ BootstrapCodexAuthProfile
    \/ WatcherInitialSync
    \/ SourceChangesAtBoot

SpecBoot == InitBoot /\ [][NextBoot]_vars

(***************************************************************************)
(* The watcher with its timers.  The event loop holds the timers setTimeout*)
(* made, each pending, cleared or fired and due DebounceTicks after it was *)
(* made; debounceTimer is the variable of the script, 0 for null.          *)
(* onFileChange is called whenever the stat poll sees another mtime, at    *)
(* any time (fs.watchFile itself polls every POLL_INTERVAL_MS).            *)
(***************************************************************************)
\* Calls of onFileChange in a run.
MaxNotifications == 3

\* DEBOUNCE_MS in ticks of the clock.
DebounceTicks == 1

PendingTimers(timers) ==
    {id \in 1..Len(timers) : timers[id].state = "pending"}

\* A mutant: clearTimeout is not called.
keepTimeout(timers, id) == timers

\* clearTimeout(id)
clearTimeout(timers, id) ==
    [timers EXCEPT ![id].state = IF @ = "pending" THEN "cleared" ELSE @]

InitDebounce ==
    /\ sourceFile \in [content : {"none", "good", "misdated"}, mtime : {0}]
    /\ authStoreFile \in StoreInputs
    /\ syncd = [revision |-> "watch", pc |-> "off", debounceTimer |-> 0,
                timers |-> <<>>, statSeen |-> 0, exitCode |-> 0]
    /\ cycles = <<>>
    /\ SystemIdle
    /\ StoreIdle
    /\ ApproveIdle
    /\ clock = 1
    /\ tokenCounter = 0

\* The initial syncOnce() in its try/catch, then fs.watchFile.
WatcherStarts ==
    /\ syncd.pc = "off"
    /\ \E fails \in BOOLEAN : RunCycle(fails)
    /\ syncd' = [syncd EXCEPT !.pc = "watching", !.statSeen = sourceFile.mtime]
    /\ UNCHANGED <<syncFrame, sourceFile>>

\* auth.json is written by its owner.
SourceTouched ==
    /\ sourceFile.mtime < MaxNotifications
    /\ \E c \in {"good", "misdated"} :
           sourceFile' = [content |-> c, mtime |-> sourceFile.mtime + 1]
    /\ UNCHANGED <<syncFrame, authStoreFile, syncd, cycles, clock>>

\* onFileChange(): the pending timer is cleared and a new one made.
OnFileChange ==
    /\ syncd.pc = "watching"
    /\ syncd.statSeen # sourceFile.mtime
    /\ LET cleared == IF syncd.debounceTimer # 0
                      THEN clearTimeout(syncd.timers, syncd.debounceTimer)
                      ELSE syncd.timers
           made == Append(cleared, [state |-> "pending",
                                    due |-> clock + DebounceTicks])
       IN  syncd' = [syncd EXCEPT !.timers = made,
                                  !.debounceTimer = Len(made),
                                  !.statSeen = sourceFile.mtime]
    /\ UNCHANGED <<syncFrame, sourceFile, authStoreFile, cycles, clock>>

\* The callback of a timer that is due: debounceTimer = null;
\* try { syncOnce() } catch { log }.
TimerCallback ==
    /\ syncd.pc = "watching"
    /\ \E id \in PendingTimers(syncd.timers) :
         /\ clock >= syncd.timers[id].due
         /\ \E fails \in BOOLEAN : RunCycle(fails)
         /\ syncd' = [syncd EXCEPT !.timers[id].state = "fired",
                                   !.debounceTimer = 0]
    /\ UNCHANGED <<syncFrame, sourceFile>>

\* Time passes.
DebounceTick ==
    /\ clock <= MaxClock
    /\ clock' = clock + 1
    /\ UNCHANGED <<syncFrame, sourceFile, authStoreFile, syncd, cycles>>

\* SIGTERM or SIGINT: cleanup() clears the pending timer and removes the
\* watch; process.exit(0).
WatcherSignalled ==
    /\ syncd.pc = "watching"
    /\ syncd' = [syncd EXCEPT
                    !.timers = IF syncd.debounceTimer # 0
                               THEN clearTimeout(@, syncd.debounceTimer)
                               ELSE @,
                    !.pc = "exit", !.exitCode = 0]
    /\ UNCHANGED <<syncFrame, sourceFile, authStoreFile, cycles, clock>>

NextDebounce ==
    \/ WatcherStarts
    \/ SourceTouched
    \/ OnFileChange
    \/ TimerCallback
    \/ DebounceTick
    \/ WatcherSignalled

SpecDebounce == InitDebounce /\ [][NextDebounce]_vars

(***************************************************************************)
(* Properties of the credential sync.                                      *)
(***************************************************************************)
\* The last two cycles read the same source content, and the first of them
\* did not fail to write.
TwiceUnchanged ==
    /\ Len(cycles) = 2
    /\ cycles[1].source = cycles[2].source
    /\ cycles[1].outcome # "failed"

\* The second of them wrote nothing and left the store as the first had.
SecondIsNoOp ==
    /\ cycles[2].outcome \notin {"write", "failed"}
    /\ cycles[2].after = cycles[1].after
    /\ authStoreFile = cycles[1].after

\* The candidate built from the content does not depend on the time: there
\* is none, or last_refresh is a valid instant.
FixedExpiry(content) ==
    LET codex == SourceCatalogue[content] IN
    \/ codex.kind # "object"
    \/ buildProfile(codex, 0) = NullProfile
    \/ codex.last_refresh # "" /\ DateGetTime(codex.last_refresh) # NaN

LastCycle == cycles[Len(cycles)]

\* The candidate profile of the last cycle.
Candidate ==
    IF syncd.revision = "watch"
    THEN buildProfile(SourceCatalogue[LastCycle.source], LastCycle.now)
    ELSE bootstrapProfile(SourceCatalogue[LastCycle.source], LastCycle.now)

\* C12: after a cycle that wrote, the stored version is the version read in
\* that cycle (1 only when there was no store or no numeric version), the
\* fixed profile id maps to the candidate, and every other profile id maps
\* to what it mapped to before.
C12_VersionPreserved ==
    (cycles # <<>> /\ LastCycle.outcome = "write") =>
        LET before == LastCycle.before
            after == LastCycle.after
        IN  /\ after.exists
            /\ after.version =
                   IF before.exists /\ before.version # NoVersion
                   THEN before.version ELSE 1
            /\ DOMAIN after.profiles = DOMAIN before.profiles \cup {PROFILE_ID}
            /\ after.profiles[PROFILE_ID] = Candidate
            /\ \A id \in DOMAIN before.profiles \ {PROFILE_ID} :
                   after.profiles[id] = before.profiles[id]

\* The content is no JSON object, or lacks a non-blank access token or a
\* non-blank refresh token.
Unusable(content) ==
    LET codex == SourceCatalogue[content] IN
    \/ codex.kind # "object"
    \/ ~codex.tokens.isObject
    \/ TrimIfString(codex.tokens.access_token) = <<>>
    \/ TrimIfString(codex.tokens.refresh_token) = <<>>

CyclesRun == IF cycles = <<>> THEN 0 ELSE LastCycle.n

\* A cycle over an unusable source left the store alone, and the daemon has
\* not stopped but for a signal.
SkippedCycle ==
    /\ (cycles # <<>> /\ Unusable(LastCycle.source)) =>
           /\ LastCycle.outcome \in {"unreadable", "no-tokens"}
           /\ LastCycle.after = LastCycle.before
           /\ authStoreFile = LastCycle.before
    /\ syncd.revision = "watch" =>
           /\ syncd.pc \in {"off", "watching", "exit"}
           /\ syncd.pc = "exit" => syncd.exitCode = 0

\* A step of the watching daemon: a change of the source the poll sees arms
\* the debounce timer, an armed timer stays armed until it fires, and when
\* it fires one more cycle runs.
RetryStep ==
    (syncd.revision = "watch" /\ syncd.pc = "watching" /\ syncd'.pc = "watching") =>
        /\ (syncd'.statSeen # syncd.statSeen) =>
               (syncd'.timer /\ syncd'.statSeen = sourceFile.mtime)
        /\ (syncd.timer /\ ~syncd'.timer) =>
               (CyclesRun' = CyclesRun + 1 /\ LastCycle'.mtime = sourceFile.mtime)
        /\ (CyclesRun' # CyclesRun) => (syncd.timer /\ ~syncd'.timer)

\* C13: a cycle over a source that is missing, unreadable, no JSON object or
\* without a non-blank access or refresh token writes nothing and leaves
\* the daemon watching; a change of the source the daemon then detects arms
\* the debounce timer, and the timer runs a further cycle when it fires.
C13_SkipAndRetry ==
    []SkippedCycle /\ [][RetryStep]_vars

\* The daemon skipped a cycle over an unusable source, went on watching,
\* and wrote the profile in the next cycle after the source had changed.
C13_Witness ==
    /\ syncd.revision = "watch"
    /\ syncd.pc = "watching"
    /\ Len(cycles) = 2
    /\ Unusable(cycles[1].source)
    /\ cycles[1].outcome \in {"unreadable", "no-tokens"}
    /\ cycles[2].outcome = "write"
    /\ cycles[2].before = cycles[1].before

\* C14: a daemon that has ended has ended with status 0.  (The
\* credential-sync daemon ends only by a signal, with status 0: see
\* SkippedCycle.)
C14_DaemonExitsZero ==
    proc["daemon"].pc = "exit" => proc["daemon"].exitCode = 0

\* C15: the self-approval daemon in which a store write has failed is still
\* running.
C15_WriteFailureCaught ==
    proc["daemon"].failed => Running("daemon")

(***************************************************************************)
(* The device an approval produced, and the device it found.               *)
(***************************************************************************)
OutDevice == OutPaired[last.res.deviceId]

HadDevice == last.res.deviceId \in DOMAIN InPaired

InDevice == InPaired[last.res.deviceId]

ListOf(v) == IF IsArray(v) THEN Range(v) ELSE {}

OneOf(v) == IF IsString(v) THEN {v} ELSE {}

\* The roles and the scopes the approval was given, as they stand.
GivenRoles ==
    (IF HadDevice THEN ListOf(InDevice.roles) \cup OneOf(InDevice.role) ELSE {})
        \cup ListOf(InRequest.roles) \cup OneOf(InRequest.role)

GivenScopes ==
    (IF HadDevice THEN ListOf(InDevice.scopes) ELSE {})
        \cup ListOf(InRequest.scopes)

\* The entries trimmed, the blank ones dropped.
Trimmed(S) == {Trim(v) : v \in S} \ {<<>>}

\* list holds exactly the elements of S, each once, in ascending order.
IsSortedListOf(list, S) ==
    /\ IsArray(list)
    /\ Range(list) = S
    /\ \A i, j \in 1..Len(list) : i < j => LexLess(list[i], list[j])

\* C16 as claimed: the roles of the approved device are the given roles
\* themselves, each once and in ascending order; absent when there is none.
C16_RolesAreUnion ==
    Succeeded =>
        IF GivenRoles = {}
        THEN OutDevice.roles = UndefinedArr
        ELSE IsSortedListOf(OutDevice.roles, GivenRoles)

\* C16 amended: the roles of the approved device are the given roles of the
\* existing device and of the request, each trimmed and the blank ones
\* dropped, each once and in ascending order whatever the order they were
\* given in; the field is absent when none is left; a first approval with a
\* singular role alone has the one trimmed role.
C16_RolesMerged ==
    Succeeded =>
        /\ IF Trimmed(GivenRoles) = {}
           THEN OutDevice.roles = UndefinedArr
           ELSE IsSortedListOf(OutDevice.roles, Trimmed(GivenRoles))
        /\ (~HadDevice /\ ~IsArray(InRequest.roles)
                /\ TrimIfString(InRequest.role) # <<>>) =>
               OutDevice.roles = <<Trim(InRequest.role)>>

\* A device that had roles is approved again for a request with a role list
\* out of order and a padded singular role.
C16_Witness ==
    /\ Succeeded
    /\ HadDevice
    /\ InDevice.role # UndefinedStr
    /\ IsArray(InRequest.roles)
    /\ ~IsSortedListOf(InRequest.roles, Range(InRequest.roles))
    /\ Trimmed(GivenRoles) # GivenRoles
    /\ Len(OutDevice.roles) = 2

\* C17 as claimed: the scopes of the approved device are the given scopes
\* themselves, each once and in ascending order, in a list that is always
\* there.
C17_ScopesAreUnion ==
    Succeeded => IsSortedListOf(OutDevice.scopes, GivenScopes)

\* C17 amended: the scopes of the approved device are the scopes of the
\* existing device and of the request, each trimmed and the blank ones
\* dropped, each once and in ascending order, in a list that is always
\* there (empty when none is left).
C17_ScopesMerged ==
    Succeeded => IsSortedListOf(OutDevice.scopes, Trimmed(GivenScopes))

\* A device with scopes is approved again for a request with other scopes,
\* one of them padded and one blank.
C17_Witness ==
    /\ Succeeded
    /\ HadDevice
    /\ ListOf(InDevice.scopes) # {}
    /\ ListOf(InRequest.scopes) \ ListOf(InDevice.scopes) # {}
    /\ Trimmed(GivenScopes) # GivenScopes
    /\ Len(OutDevice.scopes) = 2

\* The role of the request the token is for, and the tokens the device had.
RoleForToken == TrimIfString(InRequest.role)

InTokens ==
    IF HadDevice /\ InDevice.tokens # NoTokens THEN InDevice.tokens ELSE EmptyMap

C19_TokensCarried ==
    (Succeeded /\ RoleForToken = <<>>) =>
        /\ OutDevice.tokens = InTokens
        /\ ~HadDevice => OutDevice.tokens = EmptyMap

\* A request with a blank role is approved for a device that has a token.
C19_Witness ==
    /\ Succeeded
    /\ InRequest.role # UndefinedStr
    /\ RoleForToken = <<>>
    /\ HadDevice
    /\ OutDevice.tokens # EmptyMap

\* C20: the approved device has the createdAtMs of the device it replaces,
\* and the time of the approval when it replaces none; its approvedAtMs is
\* the time of the approval, not before the approvedAtMs it replaces.
C20_CreatedOnce ==
    Succeeded =>
        /\ OutDevice.approvedAtMs = clock
        /\ IF HadDevice
           THEN /\ OutDevice.createdAtMs = InDevice.createdAtMs
                /\ OutDevice.approvedAtMs >= InDevice.approvedAtMs
           ELSE OutDevice.createdAtMs = clock

\* A device first approved in this run is approved again at a later time.
C20_Witness ==
    /\ Succeeded
    /\ HadDevice
    /\ InDevice.createdAtMs >= 1
    /\ InDevice.approvedAtMs = InDevice.createdAtMs
    /\ OutDevice.approvedAtMs > InDevice.approvedAtMs
    /\ OutDevice.createdAtMs = InDevice.createdAtMs

\* The call was for a request of the pending collection with a non-blank
\* device id and a non-blank role.
HasDeviceAndRole ==
    /\ last.called
    /\ HasOwn(InPending, last.requestId)
    /\ StringTrim(InRequest.deviceId) # <<>>
    /\ TrimIfString(InRequest.role) # <<>>

\* The approval paired the device of the request, with a token for its role,
\* and took the request out of the pending collection.
RoundTrip ==
    /\ Succeeded
    /\ last.res.deviceId = Trim(InRequest.deviceId)
    /\ OutDevice.deviceId = last.res.deviceId
    /\ RoleForToken \in DOMAIN OutDevice.tokens
    /\ OutDevice.tokens[RoleForToken].role = RoleForToken
    /\ \A r \in DOMAIN OutDevice.tokens :
           OutDevice.tokens[r].role = RoleForToken => r = RoleForToken
    /\ ~HasOwn(OutPending, last.requestId)
    /\ last.requestId \notin Range(OutPending.keys)

\* C21 as claimed: approve succeeds for every pending request with a
\* non-blank device id and a non-blank role, pairs its device with one token
\* for the role and removes the request.
C21_RoundTrip ==
    HasDeviceAndRole => RoundTrip

\* C21 amended: approve succeeds for every pending request whose trimmed
\* device id and trimmed role are non-empty and of safe characters only; the
\* paired device has the trimmed device id, its token map one entry for the
\* trimmed role, and the pending collection no longer has the request id.
C21_RoundTripValid ==
    (/\ HasDeviceAndRole
     /\ ~HasUnsafeChar(Trim(InRequest.deviceId))
     /\ ~HasUnsafeChar(Trim(InRequest.role))) => RoundTrip

\* A request with a padded device id and a padded role was approved while
\* another request stayed pending.
C21_Witness ==
    /\ HasDeviceAndRole
    /\ Succeeded
    /\ InRequest.deviceId # last.res.deviceId
    /\ InRequest.role # RoleForToken
    /\ OutPending.keys # <<>>

(***************************************************************************)
(* The self-approval daemon, step by step.                                 *)
(***************************************************************************)
Daemon == proc["daemon"]

\* The keys of the requests of pending.json for the daemon's own device.
OwnRequests ==
    {k \in Range(pendingFile.keys) :
        StringTrim(pendingFile.at[k].deviceId) = Daemon.selfDeviceId}

\* The first of them in key order.
FirstOwnRequest ==
    pendingFile.keys[CHOOSE i \in 1..Len(pendingFile.keys) :
        /\ pendingFile.keys[i] \in OwnRequests
        /\ \A j \in 1..(i - 1) : pendingFile.keys[j] \notin OwnRequests]

\* The approval engine of the running revision accepts it.
OwnRequestAccepted ==
    impl = "lib" =>
        /\ ~HasUnsafeChar(Daemon.selfDeviceId)
        /\ ~HasUnsafeChar(TrimIfString(pendingFile.at[FirstOwnRequest].role))

\* The daemon takes a step and is not killed in it.
DaemonSteps(pc) ==
    /\ Daemon.pc = pc
    /\ proc'["daemon"].pc \notin {pc, "crashed"}

\* The scan of a tick that finds a request of the own device approves it in
\* memory: the request is out of the pending collection and the own device
\* in the paired collection the daemon is about to write.
ScanApproves ==
    /\ proc'["daemon"].pc = "writePending"
    /\ proc'["daemon"].requestId = FirstOwnRequest
    /\ proc'["daemon"].requestId
           \notin Range(proc'["daemon"].updatedPendingById.keys)
    /\ Daemon.selfDeviceId \in DOMAIN proc'["daemon"].updatedPairedByDeviceId
    /\ UNCHANGED <<pendingFile, pairedFile>>

\* The two writes persist the two collections, pending.json first, and the
\* daemon is done with status 0, its device in paired.json.
WritesPersist ==
    /\ Daemon.pc = "writePending" =>
           /\ proc'["daemon"].pc = "writePaired"
           /\ pendingFile' = Daemon.updatedPendingById
           /\ pairedFile' = pairedFile
    /\ Daemon.pc = "writePaired" =>
           /\ proc'["daemon"].pc = "exit"
           /\ proc'["daemon"].exitCode = 0
           /\ pairedFile' = Daemon.updatedPairedByDeviceId
           /\ Daemon.deviceId \in DOMAIN pairedFile'
           /\ pendingFile' = pendingFile

ExitsUnwritten ==
    /\ proc'["daemon"].pc = "exit"
    /\ proc'["daemon"].exitCode = 0
    /\ proc'["daemon"].wrote = "none"
    /\ ~proc'["daemon"].failed
    /\ UNCHANGED <<pendingFile, pairedFile>>

\* The daemon that has ended takes no step: only a new start of the
\* container makes a new process of it.
DoneIsTerminal ==
    Daemon.pc = "exit" =>
        /\ proc'["daemon"] \in {Daemon, NotStarted}
        /\ proc'["daemon"] = NotStarted => restarts' = restarts + 1
        /\ ~PendingWriteBy("daemon")
        /\ ~PairedWriteBy("daemon")

\* C23: the poll that finds the own device in paired.json ends the daemon
\* with neither file written, whatever pending.json holds, and the daemon
\* that has ended writes nothing.
C23_PairedIsDone ==
    [][/\ (DaemonSteps("poll") /\ Daemon.selfDeviceId \in DOMAIN pairedFile) =>
              ExitsUnwritten
       /\ DoneIsTerminal]_vars

\* The daemon was started with its device in paired.json and a request of
\* that device in pending.json, and has ended, before any tick had passed,
\* with nothing written.
C23_Witness ==
    /\ TrimIfString(identityFile) \in DOMAIN pairedFile
    /\ \E k \in Range(pendingFile.keys) :
           StringTrim(pendingFile.at[k].deviceId) = TrimIfString(identityFile)
    /\ Daemon.pc = "exit"
    /\ Daemon.wrote = "none"
    /\ Daemon.exitCode = 0
    /\ ~Daemon.failed
    /\ restarts = 1
    /\ clock = 1

\* C24: the daemon started while the identity record is absent, unparsable
\* or without a non-blank deviceId ends in its first step with status 0,
\* having read and written neither pending.json nor paired.json, and stays
\* ended whatever the files hold and whether or not an identity appears.
C24_NoIdentityNoOp ==
    [][/\ (Daemon.pc = "off" /\ proc'["daemon"].pc # "off"
              /\ TrimIfString(identityFile) = <<>>) =>
              /\ ExitsUnwritten
              /\ proc'["daemon"] = [NotStarted EXCEPT !.pc = "exit"]
       /\ DoneIsTerminal]_vars

\* The daemon ended at its start for want of an identity; the identity has
\* appeared since, a request of its device is pending and the device is not
\* paired.
C24_Witness ==
    /\ Daemon = [NotStarted EXCEPT !.pc = "exit"]
    /\ restarts = 0
    /\ clock = 1
    /\ TrimIfString(identityFile) # <<>>
    /\ TrimIfString(identityFile) \notin DOMAIN pairedFile
    /\ \E k \in Range(pendingFile.keys) :
           StringTrim(pendingFile.at[k].deviceId) = TrimIfString(identityFile)
    /\ proc["tool"].pc = "off"

\* How far the running daemon is from its end: the ticks left to the
\* deadline, then the steps left in the tick.
StepsLeftInTick ==
    CASE Daemon.pc = "poll" -> 4
      [] Daemon.pc = "scan" -> 3
      [] Daemon.pc = "writePending" -> 2
      [] Daemon.pc = "writePaired" -> 1
      [] OTHER -> 0

DaemonRank == (Daemon.endAt - clock) * 5 + StepsLeftInTick

\* C25: the daemon terminates.  Every step of the running daemon is its
\* end or brings it nearer to it (the deadline is one tick nearer, or the
\* tick one step further), it is never running after the deadline but to
\* look at the clock, and the look at the clock at or after the deadline is
\* its end with status 0 and neither file written.
C25_Terminates ==
    [][/\ (Running("daemon") /\ proc'["daemon"] # Daemon) =>
              \/ proc'["daemon"].pc \in {"exit", "crashed"}
              \/ /\ DaemonRank' < DaemonRank
                 /\ DaemonRank' >= 0
                 /\ proc'["daemon"].endAt = Daemon.endAt
                 /\ proc'["daemon"].pc # "poll" => clock' < Daemon.endAt
       /\ (DaemonSteps("poll") /\ ~(clock < Daemon.endAt)) => ExitsUnwritten
       /\ (Daemon.pc = "off" /\ proc'["daemon"].pc = "poll") =>
              proc'["daemon"].endAt = clock + TimeoutTicks]_vars

\* The daemon waited for its request until the deadline and has ended,
\* with status 0 and nothing written.
C25_Witness ==
    /\ Daemon = [NotStarted EXCEPT !.pc = "exit"]
    /\ restarts = 0
    /\ TrimIfString(identityFile) # <<>>
    /\ clock = 1 + TimeoutTicks
    /\ TrimIfString(identityFile) \notin DOMAIN pairedFile

(***************************************************************************)
(* The manual tool, step by step.                                          *)
(***************************************************************************)
Tool == proc["tool"]

\* The request the tool goes for: the one named, or the most recent one.
Located ==
    IF Tool.arg # "" THEN Tool.arg ELSE MostRecentRequest(Tool.pendingById)

NoPendingRequests == Tool.arg = "" /\ Tool.pendingById.keys = <<>>

NotInPending == Tool.arg # "" /\ Tool.arg \notin Range(Tool.pendingById.keys)

NoDeviceId ==
    /\ Located \in Range(Tool.pendingById.keys)
    /\ StringTrim(Tool.pendingById.at[Located].deviceId) = <<>>

\* The tool ends with a message and a status other than 0, and neither
\* file is written.
FailsLoudly ==
    /\ proc'["tool"].pc = "exit"
    /\ proc'["tool"].exitCode # 0
    /\ proc'["tool"].message # ""
    /\ proc'["tool"].wrote = "none"
    /\ UNCHANGED <<pendingFile, pairedFile>>

\* C26: the tool that has written both files ends with status 0; the tool
\* that finds no pending request, not the request it was asked for, or no
\* device id on the request it located, ends with a message and a status
\* other than 0 and writes neither file then or later.
C26_ToolExits ==
    [][/\ (Tool.pc = "readPaired" /\ proc'["tool"].pc # "readPaired"
              /\ (NoPendingRequests \/ NotInPending \/ NoDeviceId)) =>
              FailsLoudly
       /\ (Tool.pc = "writePaired" /\ proc'["tool"].pc = "exit"
              /\ ~proc'["tool"].failed) =>
              /\ proc'["tool"].exitCode = 0
              /\ proc'["tool"].wrote = "both"
              /\ pairedFile' = Tool.updatedPairedByDeviceId
       /\ Tool.pc = "exit" =>
              /\ proc'["tool"] = Tool
              /\ UNCHANGED <<pendingFile, pairedFile>>]_vars

\* The tool, asked for nothing, located a request without a device id
\* among others and has ended with the engine's message.
C26_Witness ==
    /\ Tool.pc = "exit"
    /\ Tool.exitCode = 1
    /\ Tool.message = "pending request missing deviceId"
    /\ Tool.wrote = "none"
    /\ Len(pendingFile.keys) = 2
    /\ \E k \in Range(pendingFile.keys) :
           StringTrim(pendingFile.at[k].deviceId) = <<>>
    /\ consumed = [k \in RequestIds |-> 0]

\* C27: whatever is at the path of pending.json and of paired.json (no
\* file, text that is no JSON, JSON that is no object), the daemon and the
\* tool go on as with an empty collection: neither ends on a TypeError.
C27_LoadNeverFatal ==
    \A p \in Procs : proc[p].message # TypeError

(***************************************************************************)
(* The debounce of the watcher.                                            *)
(***************************************************************************)
Timers == syncd.timers

FiredTimers == {id \in 1..Len(Timers) : Timers[id].state = "fired"}

\* At most one timer is pending, the one debounceTimer names; the cycles
\* run are the initial one and one for each timer that fired.
OneTimer ==
    /\ Cardinality(PendingTimers(Timers)) <= 1
    /\ syncd.pc = "watching" =>
           PendingTimers(Timers) =
               IF syncd.debounceTimer = 0 THEN {} ELSE {syncd.debounceTimer}
    /\ syncd.pc = "exit" => PendingTimers(Timers) = {}
    /\ syncd.pc # "off" => CyclesRun = 1 + Cardinality(FiredTimers)

\* A notification cancels the pending timer and starts a quiet period of
\* its own; a cycle is run by the timer of the last notification and not
\* before its quiet period is over, once, and leaves the watcher watching
\* with no timer pending.
DebounceStep ==
    /\ Len(Timers') > Len(Timers) =>
           /\ Len(Timers') = Len(Timers) + 1
           /\ PendingTimers(Timers') = {Len(Timers')}
           /\ Timers'[Len(Timers')].due = clock + DebounceTicks
           /\ syncd'.debounceTimer = Len(Timers')
           /\ CyclesRun' = CyclesRun
    /\ (syncd.pc = "watching" /\ CyclesRun' # CyclesRun) =>
           /\ CyclesRun' = CyclesRun + 1
           /\ FiredTimers' = FiredTimers \cup {Len(Timers)}
           /\ Len(Timers) \notin FiredTimers
           /\ clock >= Timers[Len(Timers)].due
           /\ PendingTimers(Timers') = {}
           /\ syncd'.debounceTimer = 0
           /\ syncd'.pc = "watching"
           /\ LastCycle'.mtime = sourceFile.mtime

\* C28: the change notifications are debounced: one timer at most is
\* pending, a notification cancels it and starts the quiet period anew,
\* only the timer of the last notification of a burst runs a cycle, one
\* cycle and not before the quiet period after that notification is over,
\* and the watcher then takes later notifications as before.
C28_Debounced ==
    []OneTimer /\ [][DebounceStep]_vars

\* Two notifications within the quiet period: the timer of the first was
\* cleared, the timer of the second ran the one cycle after them, and a
\* third notification, later, has a timer pending.
C28_Witness ==
    /\ syncd.pc = "watching"
    /\ Len(Timers) = 3
    /\ Timers[1].state = "cleared"
    /\ Timers[2].state = "fired"
    /\ Timers[2].due - Timers[1].due < DebounceTicks
    /\ Timers[3].state = "pending"
    /\ Timers[3].due > Timers[2].due
    /\ CyclesRun = 2

(***************************************************************************)
(* Termination signals.                                                    *)
(***************************************************************************)
\* C29: a daemon that a termination signal ends has released its timers
\* and its watch, starts no cycle and writes no store afterwards, and has
\* exited with status 0.
C29_SignalExitsZero ==
    /\ syncd.pc = "exit" =>
           /\ syncd.exitCode = 0
           /\ ~syncd.timer
    /\ Daemon.pc = "crashed" => Daemon.exitCode = 0

(***************************************************************************)
(* The secrets of the entrypoint.                                          *)
(***************************************************************************)
\* The load_secret_file call of the variable has been made.
Loaded(v) ==
    \E i \in 1..Len(SecretVars) : SecretVars[i] = v /\ shell.next > i

\* The entrypoint has ended with a fatal error and nothing started.
FatalExit ==
    /\ shell.pc = "exit"
    /\ shell.exitCode = 1
    /\ shell.running = {}

\* The variable is set up against the rule: a plain value, or a secret
\* file that is a symlink, unreadable or empty.
BadSecret(v) ==
    \/ shell.atStart[v].plain # <<>>
    \/ /\ shell.atStart[v].path # <<>>
       /\ shell.atStart[v].file \in {"link", "unreadable", "empty"}

\* C31: a secret variable whose plain value is non-empty at the start, or
\* whose secret file is a symlink, unreadable or empty, ends the entrypoint
\* with a fatal error at its load_secret_file call at the latest: the
\* script does not get past that call and nothing is started.
C31_SecretsFileOnly ==
    \A v \in SecretNames :
        BadSecret(v) =>
            /\ ~Loaded(v)
            /\ shell.running = {}
            /\ shell.pc = "exit" => FatalExit

(***************************************************************************)
(* The request the manual tool approves.                                   *)
(***************************************************************************)
\* The creation time of a request of the collection the tool read, 0 when
\* it has none.
CreationTs(k) ==
    LET ts == Tool.pendingById.at[k].ts IN IF ts = NoTime THEN 0 ELSE ts

\* The tool has settled on its request and goes on to write.
ToolApproves ==
    /\ Tool.pc = "readPaired"
    /\ proc'["tool"].pc = "writePending"

\* C32: the tool that goes on to write was, without an argument (or with a
\* blank one), after the request with the greatest ts of the collection it
\* read, a missing ts counting as 0, and with an argument after the request
\* of that id; what it will write lacks that request and no other, and has
\* the device of that request and no other new one.
C32_MostRecentOrNamed ==
    [][ToolApproves =>
          LET id == proc'["tool"].requestId
              keys == Range(Tool.pendingById.keys)
          IN  /\ id \in keys
              /\ Tool.arg # "" => id = Tool.arg
              /\ Tool.arg = "" =>
                     \A k \in keys : CreationTs(k) <= CreationTs(id)
              /\ Range(proc'["tool"].updatedPendingById.keys) = keys \ {id}
              /\ DOMAIN proc'["tool"].updatedPairedByDeviceId =
                     DOMAIN proc'["tool"].pairedByDeviceId
                         \cup {StringTrim(Tool.pendingById.at[id].deviceId)}
              /\ \A d \in DOMAIN proc'["tool"].pairedByDeviceId :
                     d # StringTrim(Tool.pendingById.at[id].deviceId) =>
                         proc'["tool"].updatedPairedByDeviceId[d] =
                             proc'["tool"].pairedByDeviceId[d]]_vars

\* Run without an argument on a collection whose first request has no ts
\* and whose second has one, the tool is about to write the approval of
\* the second.
C32_Witness ==
    /\ Tool.pc = "writePending"
    /\ Tool.arg = ""
    /\ Tool.pendingById.keys = <<"r4", "r1">>
    /\ Tool.requestId = "r1"
    /\ Tool.updatedPendingById.keys = <<"r4">>

(***************************************************************************)
(* The expiry of the candidate profile.                                    *)
(***************************************************************************)
\* The instant the source's last_refresh stands for, NaN when it is absent,
\* empty or no date.
LastRefreshInstant(content) ==
    LET text == SourceCatalogue[content].last_refresh IN
    IF text \in DOMAIN IsoInstants THEN IsoInstants[text] ELSE NaN

\* The expiry the profile of a cycle is to have.
ExpectedExpiry(cycle) ==
    IF LastRefreshInstant(cycle.source) # NaN
    THEN LastRefreshInstant(cycle.source) + 3600000
    ELSE cycle.now + 3600000

\* C33: the profile a cycle has written, or has found up to date, expires
\* one hour after the source's last_refresh when that is a valid instant,
\* and one hour after the time of the cycle otherwise.
C33_Expiry ==
    \A i \in 1..Len(cycles) :
        cycles[i].outcome \in {"write", "same"} =>
            /\ cycles[i].after.exists
            /\ PROFILE_ID \in DOMAIN cycles[i].after.profiles
            /\ cycles[i].after.profiles[PROFILE_ID].expires =
                   ExpectedExpiry(cycles[i])

\* The daemon has written the profile of a source with a valid
\* last_refresh and then, later, that of a source whose last_refresh is no
\* date.
C33_Witness ==
    /\ syncd.revision = "watch"
    /\ Len(cycles) = 2
    /\ cycles[1].source = "good"
    /\ cycles[1].outcome = "write"
    /\ cycles[1].after.profiles[PROFILE_ID].expires = 5000 + 3600000
    /\ cycles[2].source = "misdated"
    /\ cycles[2].outcome = "write"
    /\ cycles[2].now = 2
    /\ cycles[2].after.profiles[PROFILE_ID].expires = 2 + 3600000

(***************************************************************************)
(* The paired collection after a sequence of approvals.                    *)
(***************************************************************************)
\* The paired collection the caller holds now, and the one it started with
\* (no call changes an object, so the first collection is still in its
\* cell).
PairedNow == DerefPaired(heap, pairedRef)

PairedAtStart == DerefPaired(heap, 2)

\* The tokens of the device are tokens of roles of its role list, each
\* under its own role, with scopes among the scopes of the device.
TokensWithinDevice(device) ==
    /\ device.tokens # NoTokens
    /\ \A r \in DOMAIN device.tokens :
           /\ r \in ListOf(device.roles)
           /\ device.tokens[r].role = r
           /\ ListOf(device.tokens[r].scopes) \subseteq ListOf(device.scopes)

\* C34: after any sequence of approvals that started from an empty paired
\* collection, every key of the token map of every paired device is in the
\* role list of the device, every token has the role it is stored under,
\* and the scopes of every token are scopes of the device.
C34_TokensWithinDevice ==
    PairedAtStart = EmptyMap =>
        \A d \in DOMAIN PairedNow : TokensWithinDevice(PairedNow[d])

\* Started from an empty collection, a device is approved a second time,
\* for the same role and with fewer scopes: its token has fewer scopes than
\* the device.
C34_Witness ==
    /\ PairedAtStart = EmptyMap
    /\ Succeeded
    /\ HadDevice
    /\ RoleForToken \in DOMAIN InTokens
    /\ ListOf(OutDevice.tokens[RoleForToken].scopes) # ListOf(OutDevice.scopes)
    /\ PairedNow = OutPaired

(***************************************************************************)
(* What a device keeps when it is approved again.                          *)
(***************************************************************************)
\* C35: an approval of a device that is paired leaves it every role of its
\* role list (and the role of its role field, white space aside), every
\* scope of its scope list and every key of its token map, and leaves
\* every other paired device as it is.
C35_PrivilegesKept ==
    (Succeeded /\ HadDevice) =>
        /\ ListOf(InDevice.roles) \subseteq ListOf(OutDevice.roles)
        /\ Trimmed(OneOf(InDevice.role)) \subseteq ListOf(OutDevice.roles)
        /\ ListOf(InDevice.scopes) \subseteq ListOf(OutDevice.scopes)
        /\ DOMAIN InTokens \subseteq DOMAIN OutDevice.tokens
        /\ \A d \in DOMAIN InPaired \ {last.res.deviceId} :
               d \in DOMAIN OutPaired /\ OutPaired[d] = InPaired[d]

\* A device with two scopes and a token is approved again on a request
\* that has no role, no roles and no scopes.
C35_Witness ==
    /\ Succeeded
    /\ HadDevice
    /\ InRequest.role = UndefinedStr
    /\ ~IsArray(InRequest.roles)
    /\ ~IsArray(InRequest.scopes)
    /\ Cardinality(ListOf(InDevice.scopes)) = 2
    /\ InTokens # EmptyMap
    /\ OutDevice.scopes = InDevice.scopes
    /\ OutDevice.tokens = InTokens

(***************************************************************************)
(* One run of the self-approval daemon.                                    *)
(***************************************************************************)
\* The requests of pending.json of the device the daemon was started for.
RequestsOf(deviceId) ==
    {k \in Range(pendingFile.keys) :
        StringTrim(pendingFile.at[k].deviceId) = deviceId}

\* The writes of pending.json so far.
RECURSIVE SumOf(_, _)
SumOf(f, S) ==
    IF S = {} THEN 0
    ELSE LET k == CHOOSE x \in S : TRUE IN f[k] + SumOf(f, S \ {k})

PendingWrites == SumOf(consumed, DOMAIN consumed)

\* pending.json after the step is pending.json without its i-th request.
Removes(i) ==
    /\ pendingFile'.keys = Without(pendingFile.keys, i)
    /\ \A k \in Range(pendingFile'.keys) :
           pendingFile'.at[k] = pendingFile.at[k]

\* The first request of the daemon's own device is the one that goes, the
\* first time the daemon writes pending.json; paired.json is written after
\* pending.json has been, and the daemon ends with it.
OneApproval ==
    /\ pendingFile' # pendingFile =>
           /\ Daemon.wrote = "none"
           /\ proc'["daemon"].wrote = "pending"
           /\ \E i \in 1..Len(pendingFile.keys) :
                  /\ pendingFile.keys[i] \in RequestsOf(Daemon.selfDeviceId)
                  /\ \A j \in 1..(i - 1) :
                         pendingFile.keys[j]
                             \notin RequestsOf(Daemon.selfDeviceId)
                  /\ Removes(i)
           /\ pairedFile' = pairedFile
    /\ pairedFile' # pairedFile =>
           /\ Daemon.wrote = "pending"
           /\ proc'["daemon"].wrote = "both"
           /\ proc'["daemon"].pc = "exit"
           /\ pendingFile' = pendingFile
    /\ Daemon.pc = "exit" => UNCHANGED <<pendingFile, pairedFile, proc>>

\* C36: a run of the daemon writes pending.json at most once and
\* paired.json at most once, after it; the write of pending.json takes out
\* the first request of the daemon's own device in key order and leaves
\* every other request, those of the same device included, as it is.
C36_OneApproval ==
    [](PendingWrites <= 1) /\ [][OneApproval]_vars

\* The daemon is done with both writes, and pending.json still has a
\* request of its device.
C36_Witness ==
    /\ Daemon.pc = "exit"
    /\ Daemon.wrote = "both"
    /\ Daemon.exitCode = 0
    /\ PendingWrites = 1
    /\ RequestsOf(Daemon.deviceId) # {}
    /\ Daemon.deviceId \in DOMAIN pairedFile

(***************************************************************************)
(* The entrypoint's sync and the watcher's.                                *)
(***************************************************************************)
\* The watcher's initial sync has run after the entrypoint's, which did not
\* fail, over the auth.json the entrypoint read.
BootThenWatch ==
    /\ syncd.revision = "watch"
    /\ Len(cycles) = 2
    /\ cycles[1].outcome # "failed"
    /\ cycles[2].source = cycles[1].source
    /\ cycles[2].mtime = cycles[1].mtime

\* C37: after the entrypoint's sync, the watcher's initial sync over the
\* same auth.json writes nothing: it leaves auth-profiles.json as the
\* entrypoint left it, whatever the source and whatever the store was.
C37_BootstrapAgreesWithWatcher ==
    BootThenWatch =>
        /\ cycles[2].outcome \notin {"write", "failed"}
        /\ cycles[2].after = cycles[1].after

(***************************************************************************)
(* The keys approvePairing writes.                                         *)
(***************************************************************************)
\* A non-empty string of the characters [a-zA-Z0-9_\-:.].
SafeKey(s) == s # <<>> /\ ~HasUnsafeChar(s)

\* The keys of the token map the call added.
TokenKeysWritten ==
    IF OutDevice.tokens = NoTokens THEN {}
    ELSE DOMAIN OutDevice.tokens \ DOMAIN InTokens

\* C38: what an approval adds to the paired collection is one entry, under
\* the request's device id without the white space around it, which is the
\* deviceId field of the entry too; that key is a non-empty string of safe
\* identifier characters, and so is the key of the token the approval puts
\* into the token map of the entry, which is the request's role trimmed.
C38_KeysSafe ==
    Succeeded =>
        /\ DOMAIN OutPaired = DOMAIN InPaired \cup {last.res.deviceId}
        /\ last.res.deviceId = StringTrim(InRequest.deviceId)
        /\ OutDevice.deviceId = last.res.deviceId
        /\ SafeKey(last.res.deviceId)
        /\ TokenKeysWritten \subseteq {RoleForToken}
        /\ \A r \in TokenKeysWritten : SafeKey(r)
        /\ RoleForToken # <<>> =>
               /\ SafeKey(RoleForToken)
               /\ RoleForToken \in DOMAIN OutDevice.tokens
               /\ OutDevice.tokens[RoleForToken].role = RoleForToken

\* A request with white space around its device id and its role is
\* approved for a device that was not paired.
C38_Witness ==
    /\ Succeeded
    /\ ~HadDevice
    /\ InRequest.deviceId # last.res.deviceId
    /\ IsString(InRequest.role)
    /\ InRequest.role # RoleForToken
    /\ TokenKeysWritten = {RoleForToken}
    /\ last.res.deviceId \in DOMAIN OutPaired

=============================================================================
